---- MODULE Spec2Model ----
(***************************************************************************)
(* Strategy decision and simulation core of Metro-Quant:                   *)
(*   src/src/risk/drawdown.py    DrawdownMonitor                           *)
(*   src/src/risk/limiter.py     PositionLimiter                           *)
(*   src/src/strategy/adaptive.py, regime.py (classification table)        *)
(*   src/src/strategy/position_sizer.py  PositionSizer                     *)
(*   src/src/backtest/engine.py  BacktestPosition, Backtester              *)
(*                                                                         *)
(* Number representation.  The program computes in binary floating point;  *)
(* the model computes in fixed point on integers:                          *)
(*   money      in tenths of a currency unit   (100000.0  -> 1000000)      *)
(*   prices     in hundredths                  (100.05    -> 10005)        *)
(*   quantities in hundredths of a unit        (48.0      -> 4800)         *)
(*   fractions (strength, confidence, multipliers) in tenths               *)
(*   percentages (position caps, drawdown thresholds) in hundredths        *)
(*   drawdown   in thousandths, rounded down                               *)
(* A quotient that is not an integer is rounded to the nearest fixed-point *)
(* value (RDiv), except where the operator says it rounds down.            *)
(* None is modelled by 0 for the two "triggered at" time stamps; the clock *)
(* that stands for datetime.now() starts at 1.                             *)
(***************************************************************************)
EXTENDS Integers, Sequences, FiniteSets, TLC

VARIABLES
    drawdown_monitor,   \* DrawdownMonitor fields
    clock,              \* datetime.now(), a counter that only grows
    last_op,            \* the last DrawdownMonitor method called from outside
    pl_call,            \* arguments of a PositionLimiter.check_limit call
    pl_result,          \* its return value
    pl_done,            \* whether the call has returned
    pl_twice,           \* << >>, or <<v>>: check_limit on its own result returned v
    pl_within,          \* << >>, or <<b>>: is_within_limits on the same arguments returned b
    \* Backtester fields
    capital, positions, pending_orders, filled_orders, equity_curve, trade_log,
    regime_changes, regime_metrics, current_regime, regime_detector,
    \* the run() call in progress: its arguments and its position
    market_data, signals, strategy_func,
    pc,                 \* "idle", "loop", "done", "ValueError", "KeyError"
    i,                  \* number of market_data elements the loop has processed
    runs,               \* number of run() calls made on this Backtester
    metrics,            \* << >>, or <<m>>: run() returned with the metrics m
    \* a second Backtester object
    other,              \* << >>, or <<b>>: the fields of the Backtester not executing
    alone,              \* << >>, or <<b>>: a Backtester after its run alone
    \* a PositionSizer.calculate_size call
    ps_call,            \* its arguments
    ps_result,          \* << >>, or <<v>>: it returned v
    ps_higher,          \* << >>, or <<c, v>>: the same call with confidence c returned v
    \* two RegimeDetector objects
    detectors,          \* the fields of each
    rd_last,            \* per detector << >>, or <<returns, regime>>: its last detect call
    rd_get,             \* << >>, or the last getter call: detector, fields before, value
    \* an AdaptiveStrategy object
    as_configs,         \* its regime_configs table
    as_ret,             \* << >>, or the last call: method, regime, table before, outcome
    comparison,         \* << >>, or <<c>>: compare_strategies returned c
    \* a BacktestPosition object
    bp,                 \* its fields
    bp_fills,           \* the size_delta of each update() call made on it
    \* a PositionSizer.calculate_size_with_kelly call
    kelly_call,         \* its arguments
    kelly_result        \* << >>, or <<v>>: it returned v

dm_vars == <<drawdown_monitor, clock, last_op>>
pl_vars == <<pl_call, pl_result, pl_done, pl_twice, pl_within>>
bt_fields == <<capital, positions, pending_orders, filled_orders, equity_curve,
               trade_log, regime_changes, regime_metrics, current_regime,
               regime_detector>>
run_vars == <<market_data, signals, strategy_func, pc, i, runs, metrics>>
pair_vars == <<other, alone>>
ps_vars == <<ps_call, ps_result, ps_higher>>
rd_vars == <<detectors, rd_last, rd_get>>
as_vars == <<as_configs, as_ret>>
ext_vars == <<comparison, bp, bp_fills, kelly_call, kelly_result>>
comp_vars == <<pair_vars, ps_vars, rd_vars, as_vars, ext_vars>>
vars == <<drawdown_monitor, clock, last_op, pl_call, pl_result, pl_done,
          pl_twice, pl_within,
          capital, positions, pending_orders, filled_orders, equity_curve,
          trade_log, regime_changes, regime_metrics, current_regime,
          regime_detector, market_data, signals, strategy_func, pc, i, runs,
          metrics, other, alone, ps_call, ps_result, ps_higher, detectors,
          rd_last, rd_get, as_configs, as_ret, comparison, bp, bp_fills,
          kelly_call, kelly_result>>

Abs(x) == IF x < 0 THEN -x ELSE x
Min(a, b) == IF a <= b THEN a ELSE b
Max(a, b) == IF a >= b THEN a ELSE b

\* a / b rounded to the nearest integer, halves away from zero (b > 0)
RDiv(a, b) ==
    IF a >= 0 THEN (a + b \div 2) \div b
    ELSE -(((-a) + b \div 2) \div b)

None == 0

(***************************************************************************)
(* DrawdownMonitor                                                         *)
(***************************************************************************)
reduction_threshold == 15
safe_mode_threshold == 25

\* DrawdownMonitor.__init__
DrawdownMonitorInit(initial_capital) ==
    [ initial_capital        |-> initial_capital,
      peak_capital           |-> initial_capital,
      current_capital        |-> initial_capital,
      current_drawdown       |-> 0,
      max_drawdown           |-> 0,
      in_safe_mode           |-> FALSE,
      reduction_triggered_at |-> None,
      safe_mode_triggered_at |-> None ]

\* (peak - current) / peak as a fraction in thousandths, rounded down;
\* 0.0 when the peak is not positive
Drawdown(peak, current) ==
    IF peak > 0 THEN ((peak - current) * 1000) \div peak ELSE 0

\* current_drawdown >= threshold - 1e-10, threshold in hundredths.  The
\* capitals are integers below 2.5e9 fixed-point units, so a drawdown is never
\* inside [threshold - 1e-10, threshold) and the tolerance only absorbs the
\* rounding of the float division.
DrawdownAtLeast(peak, current, threshold) ==
    IF peak > 0 THEN (peak - current) * 100 >= threshold * peak
    ELSE 0 >= threshold

\* DMUpdate with the reduction trigger cleared as soon as the drawdown is below
\* the reduction threshold again
DMUpdate_NoHysteresis(m, current_capital, now) ==
    LET recovered == current_capital >= m.peak_capital
        peak == IF recovered THEN current_capital ELSE m.peak_capital
        dd   == Drawdown(peak, current_capital)
        safe == DrawdownAtLeast(peak, current_capital, safe_mode_threshold)
        red  == DrawdownAtLeast(peak, current_capital, reduction_threshold)
        red1 == IF recovered \/ ~red THEN None ELSE m.reduction_triggered_at
    IN  [ m EXCEPT
            !.current_capital  = current_capital,
            !.peak_capital     = peak,
            !.current_drawdown = dd,
            !.max_drawdown     = IF dd > m.max_drawdown THEN dd ELSE m.max_drawdown,
            !.in_safe_mode     = IF safe THEN TRUE ELSE m.in_safe_mode,
            !.safe_mode_triggered_at =
                IF safe /\ ~m.in_safe_mode THEN now ELSE m.safe_mode_triggered_at,
            !.reduction_triggered_at =
                IF ~safe /\ red /\ ~m.in_safe_mode /\ red1 = None THEN now ELSE red1 ]

\* DMUpdate with safe mode cleared automatically when capital is back at the peak
DMUpdate_AutoClear(m, current_capital, now) ==
    LET recovered == current_capital >= m.peak_capital
        peak == IF recovered THEN current_capital ELSE m.peak_capital
        red1 == IF recovered THEN None ELSE m.reduction_triggered_at
        was  == IF recovered THEN FALSE ELSE m.in_safe_mode
        dd   == Drawdown(peak, current_capital)
        safe == DrawdownAtLeast(peak, current_capital, safe_mode_threshold)
        red  == DrawdownAtLeast(peak, current_capital, reduction_threshold)
    IN  [ m EXCEPT
            !.current_capital  = current_capital,
            !.peak_capital     = peak,
            !.current_drawdown = dd,
            !.max_drawdown     = IF dd > m.max_drawdown THEN dd ELSE m.max_drawdown,
            !.in_safe_mode     = IF safe THEN TRUE ELSE was,
            !.safe_mode_triggered_at =
                IF safe /\ ~was THEN now
                ELSE IF recovered THEN None ELSE m.safe_mode_triggered_at,
            !.reduction_triggered_at =
                IF ~safe /\ red /\ ~was /\ red1 = None THEN now ELSE red1 ]

\* DMUpdate with the entry time stamped again on every update at or beyond the
\* safe-mode threshold (the "if not self.in_safe_mode" guard dropped)
DMUpdate_Restamp(m, current_capital, now) ==
    LET recovered == current_capital >= m.peak_capital
        peak == IF recovered THEN current_capital ELSE m.peak_capital
        red1 == IF recovered THEN None ELSE m.reduction_triggered_at
        dd   == Drawdown(peak, current_capital)
        safe == DrawdownAtLeast(peak, current_capital, safe_mode_threshold)
        red  == DrawdownAtLeast(peak, current_capital, reduction_threshold)
    IN  [ m EXCEPT
            !.current_capital  = current_capital,
            !.peak_capital     = peak,
            !.current_drawdown = dd,
            !.max_drawdown     = IF dd > m.max_drawdown THEN dd ELSE m.max_drawdown,
            !.in_safe_mode     = IF safe THEN TRUE ELSE m.in_safe_mode,
            !.safe_mode_triggered_at =
                IF safe THEN now ELSE m.safe_mode_triggered_at,
            !.reduction_triggered_at =
                IF ~safe /\ red /\ ~m.in_safe_mode /\ red1 = None THEN now ELSE red1 ]

\* DMUpdate without the risk-reduction branch
DMUpdate_NoReduce(m, current_capital, now) ==
    LET recovered == current_capital >= m.peak_capital
        peak == IF recovered THEN current_capital ELSE m.peak_capital
        red1 == IF recovered THEN None ELSE m.reduction_triggered_at
        dd   == Drawdown(peak, current_capital)
        safe == DrawdownAtLeast(peak, current_capital, safe_mode_threshold)
    IN  [ m EXCEPT
            !.current_capital  = current_capital,
            !.peak_capital     = peak,
            !.current_drawdown = dd,
            !.max_drawdown     = IF dd > m.max_drawdown THEN dd ELSE m.max_drawdown,
            !.in_safe_mode     = IF safe THEN TRUE ELSE m.in_safe_mode,
            !.safe_mode_triggered_at =
                IF safe /\ ~m.in_safe_mode THEN now ELSE m.safe_mode_triggered_at,
            !.reduction_triggered_at = red1 ]

\* DMUpdate that keeps the reduction trigger when capital is back at the peak
DMUpdate_KeepReduction(m, current_capital, now) ==
    LET recovered == current_capital >= m.peak_capital
        peak == IF recovered THEN current_capital ELSE m.peak_capital
        red1 == m.reduction_triggered_at
        dd   == Drawdown(peak, current_capital)
        safe == DrawdownAtLeast(peak, current_capital, safe_mode_threshold)
        red  == DrawdownAtLeast(peak, current_capital, reduction_threshold)
    IN  [ m EXCEPT
            !.current_capital  = current_capital,
            !.peak_capital     = peak,
            !.current_drawdown = dd,
            !.max_drawdown     = IF dd > m.max_drawdown THEN dd ELSE m.max_drawdown,
            !.in_safe_mode     = IF safe THEN TRUE ELSE m.in_safe_mode,
            !.safe_mode_triggered_at =
                IF safe /\ ~m.in_safe_mode THEN now ELSE m.safe_mode_triggered_at,
            !.reduction_triggered_at =
                IF ~safe /\ red /\ ~m.in_safe_mode /\ red1 = None THEN now ELSE red1 ]

\* DrawdownMonitor.update(current_capital), called at time now
DMUpdate(m, current_capital, now) ==
    LET recovered == current_capital >= m.peak_capital
        peak == IF recovered THEN current_capital ELSE m.peak_capital
        red1 == IF recovered THEN None ELSE m.reduction_triggered_at
        dd   == Drawdown(peak, current_capital)
        safe == DrawdownAtLeast(peak, current_capital, safe_mode_threshold)
        red  == DrawdownAtLeast(peak, current_capital, reduction_threshold)
    IN  [ m EXCEPT
            !.current_capital  = current_capital,
            !.peak_capital     = peak,
            !.current_drawdown = dd,
            !.max_drawdown     = IF dd > m.max_drawdown THEN dd ELSE m.max_drawdown,
            !.in_safe_mode     = IF safe THEN TRUE ELSE m.in_safe_mode,
            !.safe_mode_triggered_at =
                IF safe /\ ~m.in_safe_mode THEN now ELSE m.safe_mode_triggered_at,
            !.reduction_triggered_at =
                IF ~safe /\ red /\ ~m.in_safe_mode /\ red1 = None THEN now ELSE red1 ]

\* DrawdownMonitor.get_multiplier, in tenths
get_multiplier(m) ==
    IF m.in_safe_mode THEN 0
    ELSE IF m.reduction_triggered_at # None THEN 5
    ELSE 10

\* DrawdownMonitor.is_safe_mode
is_safe_mode(m) == m.in_safe_mode

\* is_reduction_active without the "and not self.in_safe_mode" conjunct
is_reduction_active_IgnoreSafe(m) == m.reduction_triggered_at # None

\* DrawdownMonitor.is_reduction_active
is_reduction_active(m) == m.reduction_triggered_at # None /\ ~m.in_safe_mode

\* DrawdownMonitor.reset_safe_mode
DMResetSafeMode(m) ==
    [ m EXCEPT !.in_safe_mode = FALSE,
               !.safe_mode_triggered_at = None,
               !.reduction_triggered_at = None ]

(***************************************************************************)
(* PositionLimiter                                                         *)
(***************************************************************************)
max_position_pct == 20
max_total_exposure_pct == 80

RECURSIVE SumAbs(_, _)
\* sum of abs(pos[s]) over the symbols s of S
SumAbs(S, pos) ==
    IF S = {} THEN 0
    ELSE LET s == CHOOSE x \in S : TRUE
         IN  Abs(pos[s]) + SumAbs(S \ {s}, pos)

RECURSIVE SumSigned(_, _)
\* sum of pos[s] over the symbols s of S
SumSigned(S, pos) ==
    IF S = {} THEN 0
    ELSE LET s == CHOOSE x \in S : TRUE
         IN  pos[s] + SumSigned(S \ {s}, pos)

\* sum(abs(size) for sym, size in current_positions.items() if sym != symbol)
OtherExposure(current_positions, symbol) ==
    SumAbs(DOMAIN current_positions \ {symbol}, current_positions)

\* OtherExposure with the sizes summed signed, so that shorts offset longs
OtherExposure_Signed(current_positions, symbol) ==
    Abs(SumSigned(DOMAIN current_positions \ {symbol}, current_positions))

\* the exposure of the other symbols as check_limit sums it
CurrentExposure(current_positions, symbol) ==
    OtherExposure(current_positions, symbol)

\* PctOf with the percentage taken for a multiple of a tenth
PctOf_Tenths(pct, total_capital) == (pct * total_capital) \div 10

\* pct * capital for a percentage in hundredths, rounded down (capital > 0)
PctOf(pct, total_capital) == (pct * total_capital) \div 100

\* check_limit that, over the total exposure limit, scales the proposal by
\* limit / total exposure instead of cutting it to the exposure still available
CheckLimit_Proportional(proposed_size, symbol, total_capital, current_positions) ==
    IF total_capital <= 0 THEN 0
    ELSE
    LET over_position == Abs(proposed_size) * 100 > max_position_pct * total_capital
        size1 == IF over_position
                 THEN IF proposed_size < 0 THEN -PctOf(max_position_pct, total_capital)
                                           ELSE PctOf(max_position_pct, total_capital)
                 ELSE proposed_size
        proposed100 == IF over_position THEN max_position_pct * total_capital
                       ELSE Abs(proposed_size) * 100
        current_exposure == CurrentExposure(current_positions, symbol)
        available100 == max_total_exposure_pct * total_capital - current_exposure * 100
        scaled == (Abs(size1) * max_total_exposure_pct * total_capital)
                     \div (current_exposure * 100 + proposed100)
    IN  IF current_exposure * 100 + proposed100 > max_total_exposure_pct * total_capital
        THEN IF available100 <= 0 THEN 0
             ELSE IF size1 < 0 THEN -scaled ELSE scaled
        ELSE size1

\* PositionLimiter.check_limit; sizes, capital and positions in money units
CheckLimit(proposed_size, symbol, total_capital, current_positions) ==
    IF total_capital <= 0 THEN 0
    ELSE
    LET over_position == Abs(proposed_size) * 100 > max_position_pct * total_capital
        \* step 1: the per-position cap, direction preserved
        size1 == IF over_position
                 THEN IF proposed_size < 0 THEN -PctOf(max_position_pct, total_capital)
                                           ELSE PctOf(max_position_pct, total_capital)
                 ELSE proposed_size
        \* proposed_pct * total_capital * 100
        proposed100 == IF over_position THEN max_position_pct * total_capital
                       ELSE Abs(proposed_size) * 100
        current_exposure == CurrentExposure(current_positions, symbol)
        \* available_exposure_pct * total_capital * 100
        available100 == max_total_exposure_pct * total_capital - current_exposure * 100
    IN  IF current_exposure * 100 + proposed100 > max_total_exposure_pct * total_capital
        THEN IF available100 <= 0 THEN 0
             ELSE IF size1 < 0 THEN -(available100 \div 100)
                               ELSE available100 \div 100
        ELSE size1

\* is_within_limits that tests the per-position limit only
IsWithinLimits_PositionOnly(position_size, symbol, total_capital, current_positions) ==
    IF total_capital <= 0 THEN FALSE
    ELSE Abs(position_size) * 100 <= max_position_pct * total_capital

\* PositionLimiter.is_within_limits
IsWithinLimits(position_size, symbol, total_capital, current_positions) ==
    IF total_capital <= 0 THEN FALSE
    ELSE IF Abs(position_size) * 100 > max_position_pct * total_capital THEN FALSE
    ELSE IF (OtherExposure(current_positions, symbol) + Abs(position_size)) * 100
              > max_total_exposure_pct * total_capital THEN FALSE
    ELSE TRUE

(***************************************************************************)
(* RegimeDetector and AdaptiveStrategy                                     *)
(*                                                                         *)
(* The trailing returns of a market data point are carried as their length *)
(* n and the three statistics numpy computes from them (thousandths):      *)
(* annualised volatility, trend strength and mean-reversion score.         *)
(***************************************************************************)
Regimes == {"trending", "mean-reverting", "high-volatility", "low-volatility",
            "uncertain"}

trend_slow_window == 30
confidence_threshold == 700

\* RegimeDetector.__init__
RegimeDetectorInit ==
    [ current_regime |-> "uncertain", regime_confidence |-> 0,
      last_detection_time |-> None ]

\* _classify_regime with "confidence > self.confidence_threshold"
ClassifyRegime_StrictThreshold(volatility, trend_strength, mean_reversion) ==
    LET \* candidate scores in the insertion order of regime_scores
        cands ==
            (IF volatility > 300
             THEN << <<"high-volatility", Min(RDiv((volatility - 300) * 1000, 300), 1000)>> >>
             ELSE << >>)
            \o (IF volatility < 100
                THEN << <<"low-volatility", 1000 - volatility * 10>> >> ELSE << >>)
            \o (IF Abs(trend_strength) > 300
                THEN << <<"trending", Abs(trend_strength)>> >> ELSE << >>)
            \o (IF mean_reversion > 300
                THEN << <<"mean-reverting", mean_reversion>> >> ELSE << >>)
        \* max(): the first candidate with the greatest score
        best == CHOOSE k \in 1..Len(cands) :
                    /\ \A j \in 1..Len(cands) : cands[j][2] <= cands[k][2]
                    /\ \A j \in 1..(k - 1) : cands[j][2] < cands[k][2]
    IN  IF cands = << >> THEN <<"uncertain", 0>>
        ELSE IF cands[best][2] > confidence_threshold THEN cands[best]
        ELSE <<"uncertain", cands[best][2]>>

\* RegimeDetector._classify_regime: <<regime, confidence>>
ClassifyRegime(volatility, trend_strength, mean_reversion) ==
    LET \* candidate scores in the insertion order of regime_scores
        cands ==
            (IF volatility > 300
             THEN << <<"high-volatility", Min(RDiv((volatility - 300) * 1000, 300), 1000)>> >>
             ELSE << >>)
            \o (IF volatility < 100
                THEN << <<"low-volatility", 1000 - volatility * 10>> >> ELSE << >>)
            \o (IF Abs(trend_strength) > 300
                THEN << <<"trending", Abs(trend_strength)>> >> ELSE << >>)
            \o (IF mean_reversion > 300
                THEN << <<"mean-reverting", mean_reversion>> >> ELSE << >>)
        \* max(): the first candidate with the greatest score
        best == CHOOSE k \in 1..Len(cands) :
                    /\ \A j \in 1..Len(cands) : cands[j][2] <= cands[k][2]
                    /\ \A j \in 1..(k - 1) : cands[j][2] < cands[k][2]
    IN  IF cands = << >> THEN <<"uncertain", 0>>
        ELSE IF cands[best][2] >= confidence_threshold THEN cands[best]
        ELSE <<"uncertain", cands[best][2]>>

\* detect() that on a short list returns 'uncertain' without storing anything
Detect_ShortKeepsState(rd, returns, now) ==
    IF returns.n < trend_slow_window
    THEN [ rd EXCEPT !.last_detection_time = now ]
    ELSE LET rc == ClassifyRegime(returns.volatility, returns.trend_strength,
                                  returns.mean_reversion)
         IN  [ current_regime |-> rc[1], regime_confidence |-> rc[2],
               last_detection_time |-> now ]

\* detect() with hysteresis: an 'uncertain' classification keeps the regime
\* stored before
Detect_Sticky(rd, returns, now) ==
    IF returns.n < trend_slow_window
    THEN [ current_regime |-> "uncertain", regime_confidence |-> 0,
           last_detection_time |-> now ]
    ELSE LET rc == ClassifyRegime(returns.volatility, returns.trend_strength,
                                  returns.mean_reversion)
         IN  [ current_regime |-> IF rc[1] = "uncertain" THEN rd.current_regime
                                  ELSE rc[1],
               regime_confidence |-> rc[2],
               last_detection_time |-> now ]

\* RegimeDetector.detect(returns) at time now: the detector afterwards
Detect(rd, returns, now) ==
    IF returns.n < trend_slow_window
    THEN [ current_regime |-> "uncertain", regime_confidence |-> 0,
           last_detection_time |-> now ]
    ELSE LET rc == ClassifyRegime(returns.volatility, returns.trend_strength,
                                  returns.mean_reversion)
         IN  [ current_regime |-> rc[1], regime_confidence |-> rc[2],
               last_detection_time |-> now ]

\* AdaptiveStrategy._initialize_regime_configs: position_multiplier in tenths,
\* signal_threshold in hundredths (the fields Backtester reads)
regime_configs ==
    [ r \in Regimes |->
        CASE r = "trending"        -> [position_multiplier |-> 10, signal_threshold |-> 30]
          [] r = "mean-reverting"  -> [position_multiplier |-> 8,  signal_threshold |-> 40]
          [] r = "high-volatility" -> [position_multiplier |-> 5,  signal_threshold |-> 50]
          [] r = "low-volatility"  -> [position_multiplier |-> 12, signal_threshold |-> 25]
          [] r = "uncertain"       -> [position_multiplier |-> 3,  signal_threshold |-> 60] ]

\* AdaptiveStrategy.get_parameters
get_parameters(regime) ==
    IF regime \in DOMAIN regime_configs THEN regime_configs[regime]
    ELSE regime_configs["uncertain"]

(***************************************************************************)
(* BacktestPosition                                                        *)
(***************************************************************************)
\* BacktestPosition.__init__
NewPosition == [ size |-> 0, entry_price |-> 0, realized_pnl |-> 0, unrealized_pnl |-> 0 ]

\* quantity (hundredths) x price (hundredths) as money (tenths)
Notional(size, price) == RDiv(size * price, 1000)

\* update() that closes at most the open size: a fill larger than the position
\* leaves it flat instead of reversing it
PositionUpdate_ClampAtFlat(pos, size_delta, price) ==
    IF pos.size = 0
    THEN [ pos EXCEPT !.size = size_delta, !.entry_price = price ]
    ELSE IF (pos.size > 0 /\ size_delta < 0) \/ (pos.size < 0 /\ size_delta > 0)
    THEN LET close_size == Min(Abs(size_delta), Abs(pos.size))
             pnl_per_unit == IF pos.size > 0 THEN price - pos.entry_price
                             ELSE pos.entry_price - price
             size == IF pos.size > 0 THEN pos.size - close_size ELSE pos.size + close_size
         IN  [ pos EXCEPT
                 !.realized_pnl = @ + Notional(close_size, pnl_per_unit),
                 !.size = size,
                 !.entry_price = IF size = 0 THEN 0 ELSE @ ]
    ELSE LET total_size == Abs(pos.size) + Abs(size_delta)
         IN  [ pos EXCEPT
                 !.entry_price = RDiv(Abs(pos.size) * pos.entry_price
                                        + Abs(size_delta) * price, total_size),
                 !.size = @ + size_delta ]

\* BacktestPosition.update(size_delta, price)
PositionUpdate(pos, size_delta, price) ==
    IF pos.size = 0
    THEN [ pos EXCEPT !.size = size_delta, !.entry_price = price ]
    ELSE IF (pos.size > 0 /\ size_delta < 0) \/ (pos.size < 0 /\ size_delta > 0)
    THEN LET close_size == Min(Abs(size_delta), Abs(pos.size))
             pnl_per_unit == IF pos.size > 0 THEN price - pos.entry_price
                             ELSE pos.entry_price - price
             size == pos.size + size_delta
         IN  [ pos EXCEPT
                 !.realized_pnl = @ + Notional(close_size, pnl_per_unit),
                 !.size = size,
                 \* abs(size) < 1e-6 is size = 0 at a resolution of 0.01
                 !.entry_price = IF size = 0 THEN 0 ELSE @ ]
    ELSE LET total_size == Abs(pos.size) + Abs(size_delta)
         IN  [ pos EXCEPT
                 !.entry_price = RDiv(Abs(pos.size) * pos.entry_price
                                        + Abs(size_delta) * price, total_size),
                 !.size = @ + size_delta ]

\* BacktestPosition.calculate_unrealized_pnl(current_price): the position
\* afterwards (a flat position returns 0.0 and keeps its stored value)
CalculateUnrealizedPnl(pos, current_price) ==
    IF pos.size = 0 THEN pos
    ELSE IF pos.size > 0
    THEN [ pos EXCEPT !.unrealized_pnl = Notional(pos.size, current_price - pos.entry_price) ]
    ELSE [ pos EXCEPT !.unrealized_pnl = Notional(Abs(pos.size), pos.entry_price - current_price) ]

(***************************************************************************)
(* Backtester                                                              *)
(***************************************************************************)
initial_capital == 1000000
slippage_bps == 5
commission_bps == 2

Last(seq) == seq[Len(seq)]

\* Backtester.__init__: the fields of a new Backtester
BacktesterInit ==
    /\ capital = initial_capital
    /\ drawdown_monitor = DrawdownMonitorInit(initial_capital)
    /\ regime_detector = RegimeDetectorInit
    /\ positions = << >>
    /\ pending_orders = << >>
    /\ filled_orders = << >>
    /\ equity_curve = << >>
    /\ trade_log = << >>
    /\ regime_changes = << >>
    /\ regime_metrics = [ r \in Regimes |-> [trades |-> 0, pnl |-> 0, wins |-> 0] ]
    /\ current_regime = "uncertain"

\* no run() call has been made
RunIdle ==
    /\ market_data = << >>
    /\ signals = << >>
    /\ strategy_func = "None"
    /\ pc = "idle"
    /\ i = 0
    /\ runs = 0
    /\ metrics = << >>

\* Backtester._validate_chronological_order with "<=" for "<"
ValidateChronologicalOrder_Strict(data_list) ==
    \A k \in 2..Len(data_list) : ~(data_list[k].timestamp <= data_list[k - 1].timestamp)

\* Backtester._validate_chronological_order with the comparison turned round
ValidateChronologicalOrder_Flipped(data_list) ==
    \A k \in 2..Len(data_list) :
        ~(data_list[k].timestamp > data_list[k - 1].timestamp)

\* Backtester._validate_chronological_order with range(1, len(data_list) - 1):
\* the last pair is not compared
ValidateChronologicalOrder_SkipLast(data_list) ==
    \A k \in 2..(Len(data_list) - 1) :
        ~(data_list[k].timestamp < data_list[k - 1].timestamp)

\* Backtester._validate_chronological_order
ValidateChronologicalOrder(data_list) ==
    \A k \in 2..Len(data_list) : ~(data_list[k].timestamp < data_list[k - 1].timestamp)

\* signal_map.get(timestamp) for signal_map = {s.timestamp: s for s in signals}:
\* the last signal of the list with that time stamp, as a sequence of 0 or 1
SignalAt(sigs, timestamp) ==
    LET ks == { k \in 1..Len(sigs) : sigs[k].timestamp = timestamp }
    IN  IF ks = {} THEN << >>
        ELSE << sigs[CHOOSE k \in ks : \A j \in ks : j <= k] >>

\* _simulate_fill with the slippage applied in the trader's favour
SimulateFill_Favourable(order, data) ==
    IF order.side = "BUY"
    THEN IF data.ask <= order.limit_price
         THEN << data.ask - RDiv(data.ask * slippage_bps, 10000) >> ELSE << >>
    ELSE IF data.bid >= order.limit_price
         THEN << data.bid + RDiv(data.bid * slippage_bps, 10000) >> ELSE << >>

\* _simulate_fill with strict limit tests: an order at the quote does not fill
SimulateFill_Strict(order, data) ==
    IF order.side = "BUY"
    THEN IF data.ask < order.limit_price
         THEN << data.ask + RDiv(data.ask * slippage_bps, 10000) >> ELSE << >>
    ELSE IF data.bid > order.limit_price
         THEN << data.bid - RDiv(data.bid * slippage_bps, 10000) >> ELSE << >>

\* Backtester._simulate_fill: the fill price, as a sequence of 0 or 1
SimulateFill(order, data) ==
    IF order.side = "BUY"
    THEN IF data.ask <= order.limit_price
         THEN << data.ask + RDiv(data.ask * slippage_bps, 10000) >> ELSE << >>
    ELSE IF data.bid >= order.limit_price
         THEN << data.bid - RDiv(data.bid * slippage_bps, 10000) >> ELSE << >>

\* the position of a symbol, BacktestPosition(symbol) when there is none
PositionOf(pos, symbol) == IF symbol \in DOMAIN pos THEN pos[symbol] ELSE NewPosition

\* pos with the position of symbol set to p (created when absent)
WithPosition(pos, symbol, p) ==
    [ s \in DOMAIN pos \cup {symbol} |-> IF s = symbol THEN p ELSE pos[s] ]

RECURSIVE ProcessPendingOrders(_, _, _)
\* Backtester._process_pending_orders from pending order k on.  st holds the
\* fields the loop writes, and keep the orders that stay pending.
ProcessPendingOrders(st, data, k) ==
    IF k > Len(pending_orders) THEN st
    ELSE
    LET order == pending_orders[k]
        fill == IF order.symbol # data.symbol THEN << >> ELSE SimulateFill(order, data)
    IN  IF fill = << >>
        THEN ProcessPendingOrders([ st EXCEPT !.keep = Append(@, order) ], data, k + 1)
        ELSE
        LET fill_price == fill[1]
            size_delta == IF order.side = "BUY" THEN order.size ELSE -order.size
            commission == RDiv(Abs(order.size) * fill_price * commission_bps, 10000000)
            filled == [ order EXCEPT !.fill_price = fill_price, !.filled = TRUE ]
        IN  ProcessPendingOrders(
              [ st EXCEPT
                  !.positions = WithPosition(@, order.symbol,
                      PositionUpdate(PositionOf(@, order.symbol), size_delta, fill_price)),
                  !.capital = @ - commission,
                  !.trade_log = Append(@,
                      [ timestamp |-> data.timestamp, symbol |-> order.symbol,
                        side |-> order.side, size |-> order.size, price |-> fill_price,
                        commission |-> commission, regime |-> st.current_regime ]),
                  !.regime_metrics[st.current_regime].trades = @ + 1,
                  !.filled_orders = Append(@, filled) ],
              data, k + 1)

\* Backtester._update_positions
UpdatePositions(pos, data) ==
    [ s \in DOMAIN pos |->
        IF s = data.symbol THEN CalculateUnrealizedPnl(pos[s], data.price) ELSE pos[s] ]

RECURSIVE SumPnl(_, _)
\* sum(pos.realized_pnl + pos.unrealized_pnl for the symbols of S)
SumPnl(S, pos) ==
    IF S = {} THEN 0
    ELSE LET s == CHOOSE x \in S : TRUE
         IN  pos[s].realized_pnl + pos[s].unrealized_pnl + SumPnl(S \ {s}, pos)

\* Backtester._calculate_total_equity
CalculateTotalEquity(cap, pos) == cap + SumPnl(DOMAIN pos, pos)

\* the caller's sizing callbacks the model offers: "None" is the default sizing,
\* "units" is strategy_func = lambda signal, regime: 100 * signal.strength
StrategyFuncs == {"None", "units"}

\* step 5 guard of run(): "if signal and not is_safe_mode()", always open
TradingAllowed_Always(m) == TRUE

\* step 5 guard of run(): "if signal and not self.drawdown_monitor.is_safe_mode()"
TradingAllowed(m) == ~is_safe_mode(m)

\* Backtester._generate_order_from_signal: the order, as a sequence of 0 or 1.
\* cap, pos, m, n_orders: capital, positions, drawdown monitor and
\* len(filled_orders) + len(pending_orders) at the call.
GenerateOrderFromSignal(signal, data, sfunc, cap, pos, m, n_orders) ==
    LET params == get_parameters(signal.regime)
        size == IF sfunc = "units" THEN signal.strength * 1000
                ELSE signal.strength * signal.confidence
                       * params.position_multiplier * get_multiplier(m)
        total_equity == CalculateTotalEquity(cap, pos)
        proposed_capital == Notional(Abs(size), data.price)
        current_positions_capital ==
            [ s \in DOMAIN pos |-> Notional(Abs(pos[s].size), data.price) ]
        adjusted_capital ==
            CheckLimit(IF size > 0 THEN proposed_capital ELSE -proposed_capital,
                       data.symbol, total_equity, current_positions_capital)
        units == IF data.price > 0 THEN RDiv(adjusted_capital * 1000, data.price) ELSE 0
        adjusted_size == IF size < 0 THEN -units ELSE units
        side == IF adjusted_size > 0 THEN "BUY" ELSE "SELL"
    IN  IF Abs(signal.strength) * 10 < params.signal_threshold THEN << >>
        ELSE IF Abs(size) < 100 THEN << >>
        ELSE IF Abs(adjusted_size) < 100 THEN << >>
        ELSE << [ order_id    |-> <<"backtest", n_orders>>,
                  symbol      |-> data.symbol,
                  side        |-> side,
                  size        |-> Abs(adjusted_size),
                  limit_price |-> IF side = "BUY" THEN RDiv(data.ask * 101, 100)
                                  ELSE RDiv(data.bid * 99, 100),
                  timestamp   |-> data.timestamp,
                  fill_price  |-> None,
                  filled      |-> FALSE ] >>

\* the regime-change log with an entry for every detection, changed or not
LogRegimeChange_Always(changes, timestamp, old_regime, new_regime) ==
    Append(changes, <<timestamp, old_regime, new_regime>>)

\* Backtester.run: the regime-change log after the regime step of a tick
LogRegimeChange(changes, timestamp, old_regime, new_regime) ==
    IF old_regime # new_regime
    THEN Append(changes, <<timestamp, old_regime, new_regime>>)
    ELSE changes

\* one iteration of the loop of Backtester.run, on market_data[i + 1]
Tick ==
    /\ pc = "loop"
    /\ i < Len(market_data)
    /\ LET data == market_data[i + 1]
           \* (1) regime detection
           detects == data.returns.n >= 30
           rd == IF detects THEN Detect(regime_detector, data.returns, clock)
                 ELSE regime_detector
           regime == IF detects THEN rd.current_regime ELSE current_regime
       IN  \* (2) fills
           \E st \in { ProcessPendingOrders(
                         [ positions |-> positions, capital |-> capital,
                           trade_log |-> trade_log, regime_metrics |-> regime_metrics,
                           filled_orders |-> filled_orders, current_regime |-> regime,
                           keep |-> << >> ], data, 1) } :
           \* (3) unrealized PnL of the positions in this symbol
           \E pos \in { UpdatePositions(st.positions, data) } :
           \* (4) drawdown monitor and equity curve
           \E total_equity \in { CalculateTotalEquity(st.capital, pos) } :
           \E m \in { DMUpdate(drawdown_monitor, total_equity, clock) } :
           \* (5) the signal of this time stamp
           \E sig \in { SignalAt(signals, data.timestamp) } :
               /\ regime_detector' = rd
               /\ current_regime' = regime
               /\ regime_changes' = LogRegimeChange(regime_changes, data.timestamp,
                                                     current_regime, regime)
               /\ positions' = pos
               /\ capital' = st.capital
               /\ trade_log' = st.trade_log
               /\ regime_metrics' = st.regime_metrics
               /\ filled_orders' = st.filled_orders
               /\ drawdown_monitor' = m
               /\ equity_curve' = Append(equity_curve, <<data.timestamp, total_equity>>)
               /\ pending_orders' =
                    st.keep \o
                    (IF sig # << >> /\ TradingAllowed(m)
                     THEN GenerateOrderFromSignal(sig[1], data, strategy_func,
                              st.capital, pos, m,
                              Len(st.filled_orders) + Len(st.keep))
                     ELSE << >>)
    /\ i' = i + 1
    /\ clock' = clock + 1
    /\ UNCHANGED <<market_data, signals, strategy_func, pc, runs, metrics, last_op,
                   pl_vars, comp_vars>>

\* Backtester._close_all_positions: which positions it closes
ClosesPosition(pos, s, data) == pos[s].size # 0 /\ s = data.symbol

\* Backtester._close_all_positions: the positions afterwards
CloseAllPositions(pos, data) ==
    [ s \in DOMAIN pos |->
        IF ClosesPosition(pos, s, data)
        THEN PositionUpdate(pos[s], -pos[s].size, data.price) ELSE pos[s] ]

\* Backtester._close_all_positions: the closing orders appended to filled_orders
ClosingOrders(pos, data) ==
    IF data.symbol \in DOMAIN pos /\ ClosesPosition(pos, data.symbol, data)
    THEN << [ order_id    |-> <<"close", data.symbol>>,
              symbol      |-> data.symbol,
              side        |-> IF pos[data.symbol].size > 0 THEN "SELL" ELSE "BUY",
              size        |-> Abs(pos[data.symbol].size),
              limit_price |-> data.price,
              timestamp   |-> data.timestamp,
              fill_price  |-> data.price,
              filled      |-> TRUE ] >>
    ELSE << >>

\* np.maximum.accumulate(equity_array)[k]: the highest equity of the first k points
RunningMax(curve, k) ==
    CHOOSE v \in { curve[j][2] : j \in 1..k } : \A j \in 1..k : curve[j][2] <= v

\* (equity_array - running_max) / running_max at point k, in thousandths, rounded
\* down; with a peak of 0 numpy gives nan or -inf and min() gives that: the
\* equity of the runs modelled here is always positive
DrawdownAt(curve, k) ==
    IF RunningMax(curve, k) > 0
    THEN ((curve[k][2] - RunningMax(curve, k)) * 1000) \div RunningMax(curve, k)
    ELSE 0

\* max_drawdown = np.min(drawdown)
MaxDrawdownOf(curve) ==
    CHOOSE d \in { DrawdownAt(curve, k) : k \in 1..Len(curve) } :
        \A k \in 1..Len(curve) : d <= DrawdownAt(curve, k)

\* (b - a) / a in basis points (1e-4), rounded to the nearest, for a > 0; the
\* quotient is taken in two steps to stay within 32 bits
ReturnBp(a, b) ==
    LET q1 == ((b - a) * 1000) \div a
        r1 == ((b - a) * 1000) % a
        r2 == (r1 * 10) % a
    IN  q1 * 10 + (r1 * 10) \div a + (IF 2 * r2 >= a THEN 1 ELSE 0)

\* np.diff(equity_array) / equity_array[:-1], in basis points; no element is
\* nan, the equity being positive
ExtractReturns(curve) ==
    [ k \in 1..(Len(curve) - 1) |-> ReturnBp(curve[k][2], curve[k + 1][2]) ]

RECURSIVE SumSeq(_, _)
SumSeq(seq, n) == IF n = 0 THEN 0 ELSE seq[n] + SumSeq(seq, n - 1)

RECURSIVE ISqrtIn(_, _, _)
\* the integer square root of v, searched in lo..hi
ISqrtIn(v, lo, hi) ==
    IF lo = hi THEN lo
    ELSE LET mid == (lo + hi + 1) \div 2
         IN  IF mid * mid <= v THEN ISqrtIn(v, mid, hi) ELSE ISqrtIn(v, lo, mid - 1)

\* n^2 times the population variance of the returns (np.std has ddof = 0)
ScaledVariance(returns) ==
    Len(returns) * SumSeq([ k \in 1..Len(returns) |-> returns[k] * returns[k] ],
                          Len(returns))
        - SumSeq(returns, Len(returns)) * SumSeq(returns, Len(returns))

sqrt_252 == 15875   \* np.sqrt(252) = 15.8745, in thousandths

\* sharpe_ratio in thousandths: mean / std * sqrt(252), or 0.0 when there is
\* no return or their standard deviation is 0.  mean / std is
\* sum / sqrt(n^2 variance); the square root is rounded down to an integer.
SharpeRatio(returns) ==
    IF Len(returns) > 0 /\ ScaledVariance(returns) > 0
    THEN RDiv(SumSeq(returns, Len(returns)) * sqrt_252,
              ISqrtIn(ScaledVariance(returns), 1, 40000))
    ELSE 0

\* Backtester._calculate_metrics on a non-empty equity curve (total_return,
\* total_pnl over the constant initial capital, is left out); every trade
\* counts as a winning one
CalculateMetrics(curve, tlog) ==
    [ total_pnl    |-> Last(curve)[2] - initial_capital,
      sharpe_ratio |-> SharpeRatio(ExtractReturns(curve)),
      max_drawdown |-> MaxDrawdownOf(curve),
      win_rate     |-> IF Len(tlog) > 0 THEN 10 ELSE 0,
      total_trades |-> Len(tlog),
      final_equity |-> Last(curve)[2] ]

\* the end of Backtester.run, after the loop: close the positions at the final
\* prices, compute the metrics and log them.  _calculate_metrics returns {}
\* for an empty equity curve, and the log line then raises KeyError.
Finish ==
    /\ pc = "loop"
    /\ i = Len(market_data)
    /\ IF market_data # << >>
       THEN /\ positions' = CloseAllPositions(positions, Last(market_data))
            /\ filled_orders' = filled_orders \o ClosingOrders(positions, Last(market_data))
       ELSE UNCHANGED <<positions, filled_orders>>
    /\ pc' = IF equity_curve = << >> THEN "KeyError" ELSE "done"
    /\ metrics' = IF equity_curve = << >> THEN << >>
                  ELSE <<CalculateMetrics(equity_curve, trade_log)>>
    /\ UNCHANGED <<capital, pending_orders, equity_curve, trade_log, regime_changes,
                   regime_metrics, current_regime, regime_detector, market_data,
                   signals, strategy_func, i, runs, dm_vars, pl_vars, comp_vars>>

\* the start of Backtester.run(md, sg, sf): the two chronology checks
RunCall(md, sg, sf) ==
    /\ market_data' = md
    /\ signals' = sg
    /\ strategy_func' = sf
    /\ i' = 0
    /\ runs' = runs + 1
    /\ pc' = IF ~ValidateChronologicalOrder(md) THEN "ValueError"
             ELSE IF sg # << >> /\ ~ValidateChronologicalOrder(sg) THEN "ValueError"
             ELSE "loop"
    /\ metrics' = << >>
    /\ UNCHANGED <<bt_fields, dm_vars, pl_vars, comp_vars>>

(***************************************************************************)
(* Specification SpecDD: a DrawdownMonitor driven by its caller            *)
(***************************************************************************)
MaxClock == 4

\* capitals handed to the constructor and to update()
InitialCapitals == {0, 100}
CapitalValues == {-10, 0, 70, 75, 80, 85, 90, 100, 110}

\* no second Backtester has been constructed
PairIdle ==
    /\ other = << >>
    /\ alone = << >>

\* no PositionSizer call has been made
SizerIdle ==
    /\ ps_call = << >>
    /\ ps_result = << >>
    /\ ps_higher = << >>

\* no RegimeDetector has been constructed outside a Backtester
DetectorsIdle ==
    /\ detectors = << >>
    /\ rd_last = << >>
    /\ rd_get = << >>

\* no AdaptiveStrategy has been constructed outside a Backtester
AdaptiveIdle ==
    /\ as_configs = << >>
    /\ as_ret = << >>

\* no comparison, no separate position and no Kelly sizing call has been made
ExtIdle ==
    /\ comparison = << >>
    /\ bp = << >>
    /\ bp_fills = << >>
    /\ kelly_call = << >>
    /\ kelly_result = << >>

\* no check_limit call in progress
LimiterIdle ==
    /\ pl_call = [proposed_size |-> 0, symbol |-> "A", capital |-> 0,
                  current_positions |-> <<>>]
    /\ pl_result = 0
    /\ pl_done = FALSE
    /\ pl_twice = << >>
    /\ pl_within = << >>

\* the Backtester fields other than its drawdown monitor, as constructed
BacktesterIdle ==
    /\ capital = initial_capital
    /\ regime_detector = RegimeDetectorInit
    /\ positions = << >>
    /\ pending_orders = << >>
    /\ filled_orders = << >>
    /\ equity_curve = << >>
    /\ trade_log = << >>
    /\ regime_changes = << >>
    /\ regime_metrics = [ r \in Regimes |-> [trades |-> 0, pnl |-> 0, wins |-> 0] ]
    /\ current_regime = "uncertain"
    /\ RunIdle

InitDD ==
    /\ \E c \in InitialCapitals : drawdown_monitor = DrawdownMonitorInit(c)
    /\ clock = 1
    /\ last_op = "init"
    /\ LimiterIdle
    /\ BacktesterIdle
    /\ PairIdle /\ SizerIdle /\ DetectorsIdle /\ AdaptiveIdle /\ ExtIdle

\* a caller's update(current_capital)
Update ==
    /\ clock < MaxClock
    /\ \E c \in CapitalValues : drawdown_monitor' = DMUpdate(drawdown_monitor, c, clock)
    /\ clock' = clock + 1
    /\ last_op' = "update"
    /\ UNCHANGED <<pl_vars, bt_fields, run_vars, comp_vars>>

\* a caller's reset_safe_mode()
ResetSafeMode ==
    /\ clock < MaxClock
    /\ drawdown_monitor' = DMResetSafeMode(drawdown_monitor)
    /\ clock' = clock + 1
    /\ last_op' = "reset"
    /\ UNCHANGED <<pl_vars, bt_fields, run_vars, comp_vars>>

NextDD == Update \/ ResetSafeMode

SpecDD == InitDD /\ [][NextDD]_vars

UpdateStep == last_op' = "update" /\ clock' = clock + 1

\* C1: once an update() has put the monitor in Safe, every later update(),
\* recovery to or above the peak included, leaves is_safe_mode() true and
\* get_multiplier() at 0.0; only reset_safe_mode() makes is_safe_mode() false.
C1_SafeModeSticky ==
    [][ /\ (is_safe_mode(drawdown_monitor) /\ UpdateStep)
            => (is_safe_mode(drawdown_monitor') /\ get_multiplier(drawdown_monitor') = 0)
        /\ (is_safe_mode(drawdown_monitor) /\ ~is_safe_mode(drawdown_monitor'))
            => last_op' = "reset" ]_vars

\* Safe was entered by an earlier update, and the last update brought the
\* capital back to the peak
C1_Witness ==
    /\ last_op = "update"
    /\ drawdown_monitor.in_safe_mode
    /\ drawdown_monitor.safe_mode_triggered_at < clock - 1
    /\ drawdown_monitor.current_capital >= drawdown_monitor.peak_capital
    /\ get_multiplier(drawdown_monitor) = 0

\* C10: from any prior state an update() whose resulting drawdown is at least
\* 0.25 leaves the monitor in Safe in the same call (is_safe_mode() true,
\* get_multiplier() 0.0, safe_mode_triggered_at set); when the monitor was
\* already Safe the update leaves safe_mode_triggered_at as it was.
C10_SafeModeActivation ==
    [][ ( /\ UpdateStep
          /\ drawdown_monitor'.peak_capital > 0
          /\ 4 * (drawdown_monitor'.peak_capital - drawdown_monitor'.current_capital)
                >= drawdown_monitor'.peak_capital )
        => /\ is_safe_mode(drawdown_monitor')
           /\ get_multiplier(drawdown_monitor') = 0
           /\ drawdown_monitor'.safe_mode_triggered_at # None
           /\ drawdown_monitor.in_safe_mode
                => drawdown_monitor'.safe_mode_triggered_at
                     = drawdown_monitor.safe_mode_triggered_at
           /\ ~drawdown_monitor.in_safe_mode
                => drawdown_monitor'.safe_mode_triggered_at = clock ]_vars

\* Reduced, then Safe, then a further update at 25% or more: the entry time is
\* still the one of the call that entered Safe
C10_Witness ==
    /\ last_op = "update"
    /\ drawdown_monitor.in_safe_mode
    /\ drawdown_monitor.reduction_triggered_at # None
    /\ drawdown_monitor.reduction_triggered_at < drawdown_monitor.safe_mode_triggered_at
    /\ drawdown_monitor.safe_mode_triggered_at < clock - 1
    /\ drawdown_monitor.peak_capital > 0
    /\ 4 * (drawdown_monitor.peak_capital - drawdown_monitor.current_capital)
          >= drawdown_monitor.peak_capital

\* C11: when the monitor is not Safe, an update() whose resulting drawdown d
\* satisfies 0.15 <= d < 0.25 leaves it Reduced: get_multiplier() is 0.5,
\* is_reduction_active() is true and is_safe_mode() is false.
C11_ReductionActivation ==
    [][ ( /\ UpdateStep
          /\ ~is_safe_mode(drawdown_monitor)
          /\ drawdown_monitor'.peak_capital > 0
          /\ 100 * (drawdown_monitor'.peak_capital - drawdown_monitor'.current_capital)
                >= 15 * drawdown_monitor'.peak_capital
          /\ 100 * (drawdown_monitor'.peak_capital - drawdown_monitor'.current_capital)
                < 25 * drawdown_monitor'.peak_capital )
        => /\ get_multiplier(drawdown_monitor') = 5
           /\ is_reduction_active(drawdown_monitor')
           /\ ~is_safe_mode(drawdown_monitor') ]_vars

\* the last update took a monitor that was not Safe to a drawdown in
\* [0.15, 0.25) and stamped the reduction trigger
C11_Witness ==
    /\ last_op = "update"
    /\ ~drawdown_monitor.in_safe_mode
    /\ drawdown_monitor.reduction_triggered_at = clock - 1
    /\ drawdown_monitor.current_drawdown >= 150
    /\ drawdown_monitor.current_drawdown < 250
    /\ get_multiplier(drawdown_monitor) = 5

\* C12: when the monitor is Reduced and not Safe, an update() with
\* current_capital >= peak_capital sets the peak to current_capital and returns
\* the monitor to Normal: is_reduction_active() false, get_multiplier() 1.0.
C12_RecoveryClearsReduction ==
    [][ ( /\ UpdateStep
          /\ is_reduction_active(drawdown_monitor)
          /\ ~is_safe_mode(drawdown_monitor)
          /\ drawdown_monitor'.current_capital >= drawdown_monitor.peak_capital )
        => /\ drawdown_monitor'.peak_capital = drawdown_monitor'.current_capital
           /\ ~is_reduction_active(drawdown_monitor')
           /\ get_multiplier(drawdown_monitor') = 10 ]_vars

\* two calls since construction, the last an update: the first took the
\* monitor to Reduced (the recorded maximum drawdown is in [0.15, 0.25)), the
\* second brought the capital to a new peak
C12_Witness ==
    /\ last_op = "update"
    /\ clock = 3
    /\ drawdown_monitor.max_drawdown >= 150
    /\ drawdown_monitor.max_drawdown < 250
    /\ drawdown_monitor.current_capital = drawdown_monitor.peak_capital
    /\ drawdown_monitor.peak_capital > drawdown_monitor.initial_capital
    /\ ~is_reduction_active(drawdown_monitor)
    /\ get_multiplier(drawdown_monitor) = 10

\* C13: in every reachable state get_multiplier() is one of 1.0, 0.5, 0.0; it
\* is 0.0 exactly when is_safe_mode() is true and 0.5 exactly when
\* is_reduction_active() is true; is_safe_mode() and is_reduction_active() are
\* never both true.
C13_MultiplierMatchesState ==
    /\ get_multiplier(drawdown_monitor) \in {10, 5, 0}
    /\ get_multiplier(drawdown_monitor) = 0 <=> is_safe_mode(drawdown_monitor)
    /\ get_multiplier(drawdown_monitor) = 5 <=> is_reduction_active(drawdown_monitor)
    /\ ~(is_safe_mode(drawdown_monitor) /\ is_reduction_active(drawdown_monitor))

\* Safe entered from Reduced: both the safe flag and the reduction trigger are set
C13_Witness ==
    /\ drawdown_monitor.in_safe_mode
    /\ drawdown_monitor.reduction_triggered_at # None
    /\ get_multiplier(drawdown_monitor) = 0

\* C14: after every update(current_capital), for any sequence of updates and
\* any capital values, get_current_drawdown() satisfies 0 <= drawdown <= 1.
C14_DrawdownBounded ==
    last_op = "update" =>
        /\ drawdown_monitor.current_drawdown >= 0
        /\ drawdown_monitor.current_drawdown <= 1000

(***************************************************************************)
(* Specification SpecPL: one PositionLimiter.check_limit call              *)
(***************************************************************************)
Symbols == {"A", "B", "C"}

\* arguments of the call, in money units
ProposedSizes == {-900, -250, -200, -50, 0, 100, 200, 300}
Capitals == {-5, 0, 500, 1000}
PositionSizes == {-400, 250, 500}
Portfolios == UNION { [S -> PositionSizes] : S \in SUBSET Symbols }

InitPL ==
    /\ drawdown_monitor = DrawdownMonitorInit(0)
    /\ clock = 1
    /\ last_op = "init"
    /\ pl_call \in [ proposed_size : ProposedSizes, symbol : Symbols,
                      capital : Capitals, current_positions : Portfolios ]
    /\ pl_result = 0
    /\ pl_done = FALSE
    /\ pl_twice = << >>
    /\ pl_within = << >>
    /\ BacktesterIdle
    /\ PairIdle /\ SizerIdle /\ DetectorsIdle /\ AdaptiveIdle /\ ExtIdle

CheckLimitCall ==
    /\ ~pl_done
    /\ pl_result' = CheckLimit(pl_call.proposed_size, pl_call.symbol,
                               pl_call.capital, pl_call.current_positions)
    /\ pl_done' = TRUE
    /\ UNCHANGED <<pl_call, pl_twice, pl_within, dm_vars, bt_fields, run_vars,
                   comp_vars>>

\* check_limit called on the size the first call returned, the other
\* arguments as before
CheckLimitAgain ==
    /\ pl_done
    /\ pl_twice = << >>
    /\ pl_twice' = << CheckLimit(pl_result, pl_call.symbol, pl_call.capital,
                                 pl_call.current_positions) >>
    /\ UNCHANGED <<pl_call, pl_result, pl_done, pl_within, dm_vars, bt_fields, run_vars,
                   comp_vars>>

\* is_within_limits called with the arguments of the check_limit call; it
\* assigns no attribute and no element of its arguments
IsWithinLimitsCall ==
    /\ pl_within = << >>
    /\ pl_within' = << IsWithinLimits(pl_call.proposed_size, pl_call.symbol,
                                      pl_call.capital, pl_call.current_positions) >>
    /\ UNCHANGED <<pl_call, pl_result, pl_done, pl_twice, dm_vars, bt_fields, run_vars,
                   comp_vars>>

NextPL == CheckLimitCall \/ CheckLimitAgain \/ IsWithinLimitsCall

SpecPL == InitPL /\ [][NextPL]_vars

\* C3: for capital > 0 the size check_limit returns has magnitude at most
\* 0.2 x capital and, when it is not zero, the exposure of all other symbols
\* plus that magnitude is at most 0.8 x capital.
C3_CheckLimitCaps ==
    (pl_done /\ pl_call.capital > 0) =>
        /\ Abs(pl_result) * 100 <= 20 * pl_call.capital
        /\ pl_result # 0 =>
             (OtherExposure(pl_call.current_positions, pl_call.symbol)
                + Abs(pl_result)) * 100 <= 80 * pl_call.capital

\* a proposal over both caps with a short position among the other symbols:
\* shrunk to the headroom that is left, below the per-position cap
C3_Witness ==
    /\ pl_done
    /\ pl_call.capital > 0
    /\ Abs(pl_call.proposed_size) * 100 > 20 * pl_call.capital
    /\ pl_result # 0
    /\ Abs(pl_result) * 100 < 20 * pl_call.capital
    /\ \E s \in DOMAIN pl_call.current_positions \ {pl_call.symbol} :
           pl_call.current_positions[s] < 0
    /\ (OtherExposure(pl_call.current_positions, pl_call.symbol)
          + Abs(pl_result)) * 100 = 80 * pl_call.capital

\* C15: check_limit is idempotent: for every proposed size x, symbol,
\* capital > 0 and portfolio, check_limit(check_limit(x)) equals check_limit(x)
\* with the other arguments held fixed.
C15_CheckLimitIdempotent ==
    (pl_twice # << >> /\ pl_call.capital > 0) => pl_twice[1] = pl_result

\* the first call cut the proposal to the exposure still available, the
\* second call returned that size again
C15_Witness ==
    /\ pl_twice # << >>
    /\ pl_call.capital > 0
    /\ pl_result # 0
    /\ pl_result # pl_call.proposed_size
    /\ Abs(pl_result) * 100 < 20 * pl_call.capital
    /\ pl_twice[1] = pl_result

\* C16: check_limit is sign-preserving and monotone: for every proposed size
\* and portfolio the result lies between 0 and the proposed size inclusive.
C16_CheckLimitSignAndMonotone ==
    pl_done =>
        /\ Min(0, pl_call.proposed_size) <= pl_result
        /\ pl_result <= Max(0, pl_call.proposed_size)

\* a short proposal cut to a smaller short size
C16_Witness ==
    /\ pl_done
    /\ pl_call.proposed_size < 0
    /\ pl_result < 0
    /\ pl_result > pl_call.proposed_size

\* C17: if is_within_limits returns true then check_limit with the same
\* arguments returns the proposed size unchanged; is_within_limits itself
\* mutates nothing.
C17_WithinLimitsAgrees ==
    /\ []( (pl_within = <<TRUE>> /\ pl_done) => pl_result = pl_call.proposed_size )
    /\ [][ (pl_within = << >> /\ pl_within' # << >>)
             => /\ pl_call' = pl_call
                /\ pl_result' = pl_result
                /\ pl_done' = pl_done
                /\ pl_twice' = pl_twice ]_vars

\* a position with other symbols held that is within both limits, returned
\* unchanged by check_limit
C17_Witness ==
    /\ pl_within = <<TRUE>>
    /\ pl_done
    /\ pl_call.proposed_size # 0
    /\ OtherExposure(pl_call.current_positions, pl_call.symbol) > 0
    /\ pl_result = pl_call.proposed_size

(***************************************************************************)
(* Specification SpecBT: one Backtester.run call on a new Backtester       *)
(***************************************************************************)
MaxTicks == 4
MaxChronoLen == 2
MaxTime == 2

\* trailing returns: fewer than 30, and 30 with a strong trend
ShortReturns == [ n |-> 0, volatility |-> 0, trend_strength |-> 0, mean_reversion |-> 0 ]
TrendReturns == [ n |-> 30, volatility |-> 200, trend_strength |-> 800, mean_reversion |-> 0 ]

\* MarketData(timestamp, symbol, price, bid, ask, returns): symbol A quoted
\* 400.00 or 100.00, symbol B quoted 100.00 with a full window of returns
MarketDataPoint(timestamp, kind) ==
    CASE kind = "A_hi" -> [ timestamp |-> timestamp, symbol |-> "A", price |-> 40000,
                            bid |-> 39995, ask |-> 40005, returns |-> ShortReturns ]
      [] kind = "A_lo" -> [ timestamp |-> timestamp, symbol |-> "A", price |-> 10000,
                            bid |-> 9995, ask |-> 10005, returns |-> ShortReturns ]
      [] kind = "B_lo" -> [ timestamp |-> timestamp, symbol |-> "B", price |-> 10000,
                            bid |-> 9995, ask |-> 10005, returns |-> TrendReturns ]
TickKinds == {"A_hi", "A_lo", "B_lo"}

\* Signal(timestamp, strength, confidence, regime): full strength either way
SignalPoint(timestamp, kind) ==
    CASE kind = "BUY"  -> [ timestamp |-> timestamp, strength |-> 10, confidence |-> 10,
                            regime |-> "low-volatility" ]
      [] kind = "SELL" -> [ timestamp |-> timestamp, strength |-> -10, confidence |-> 10,
                            regime |-> "low-volatility" ]
SignalKinds == {"BUY", "SELL"}

RECURSIVE SignalsOf(_, _)
\* the signals of a choice f of "none" or a signal kind for each time stamp 1..n
SignalsOf(f, n) ==
    IF n = 0 THEN << >>
    ELSE IF f[n] = "none" THEN SignalsOf(f, n - 1)
    ELSE Append(SignalsOf(f, n - 1), SignalPoint(n, f[n]))

\* a replay: n market data points stamped 1..n, of the kinds given
ReplayData(n, kinds) == [ k \in 1..n |-> MarketDataPoint(k, kinds[k]) ]

\* a short input with the time stamps t, in any order
ChronoData(n, t) == [ k \in 1..n |-> MarketDataPoint(t[k], "A_lo") ]
ChronoSignals(n, u) == [ k \in 1..n |-> SignalPoint(u[k], "BUY") ]

InitBT ==
    /\ BacktesterInit
    /\ RunIdle
    /\ clock = 1
    /\ last_op = "init"
    /\ LimiterIdle
    /\ PairIdle /\ SizerIdle /\ DetectorsIdle /\ AdaptiveIdle /\ ExtIdle

\* run(market_data, signals, strategy_func) on the new Backtester: a replay of
\* up to MaxTicks points with at most one signal per time stamp
RunReplay ==
    /\ pc = "idle"
    /\ \E n \in 0..MaxTicks :
       \E kinds \in [1..n -> TickKinds], f \in [1..n -> SignalKinds \cup {"none"}],
          sf \in StrategyFuncs :
         RunCall(ReplayData(n, kinds), SignalsOf(f, n), sf)
    /\ UNCHANGED clock

\* run(market_data, signals) on the new Backtester: short inputs whose time
\* stamps come in any order
RunUnordered ==
    /\ pc = "idle"
    /\ \E n \in 0..MaxChronoLen, k \in 0..MaxChronoLen :
       \E t \in [1..n -> 1..MaxTime], u \in [1..k -> 1..MaxTime] :
         RunCall(ChronoData(n, t), ChronoSignals(k, u), "None")
    /\ UNCHANGED clock

NextBT == RunReplay \/ RunUnordered \/ Tick \/ Finish

SpecBT == InitBT /\ [][NextBT]_vars

\* a step of the loop of run()
TickStep == pc = "loop" /\ i' = i + 1

\* a step of the loop that appended an order to pending_orders
EnqueueStep ==
    /\ TickStep
    /\ Len(pending_orders') + Len(filled_orders')
         = Len(pending_orders) + Len(filled_orders) + 1

\* every order pending after the step was pending before it
NoNewPending ==
    \A k \in 1..Len(pending_orders') :
        \E j \in 1..Len(pending_orders) : pending_orders'[k] = pending_orders[j]

RECURSIVE NotionalAfter(_, _, _, _)
\* summed notional, at price, of the positions pos of the symbols S once the
\* order has filled
NotionalAfter(S, pos, order, price) ==
    IF S = {} THEN 0
    ELSE LET s == CHOOSE x \in S : TRUE
             delta == IF s # order.symbol THEN 0
                      ELSE IF order.side = "BUY" THEN order.size ELSE -order.size
         IN  Notional(Abs(PositionOf(pos, s).size + delta), price)
               + NotionalAfter(S \ {s}, pos, order, price)

\* C2: for every order accepted from a signal, the position that results when
\* it fills (the symbol's existing position plus the order), valued at the tick
\* price, is at most 20% of total equity, and the summed notional of all
\* positions including it is at most 80% of total equity.
C2_AcceptedOrderWithinCaps ==
    [][ EnqueueStep =>
          LET data == market_data[i']
              order == Last(pending_orders')
              equity == Last(equity_curve')[2]
          IN  /\ NotionalAfter({order.symbol}, positions', order, data.price) * 100
                   <= 20 * equity
              /\ NotionalAfter(DOMAIN positions' \cup {order.symbol}, positions',
                               order, data.price) * 100
                   <= 80 * equity ]_vars

\* C4: when run returns, every position in the position map has size 0,
\* whichever symbol the final tick belongs to.
C4_RunTerminatesFlat ==
    pc = "done" => \A s \in DOMAIN positions : positions[s].size = 0

C7_EveryOrderFilled ==
    pc = "done" => pending_orders = << >>

\* some element is stamped earlier than its predecessor
HasInversion(data_list) ==
    \E k \in 1..Len(data_list) :
        k > 1 /\ data_list[k].timestamp < data_list[k - 1].timestamp

\* two consecutive elements carry the same time stamp
HasRepeat(data_list) ==
    \E k \in 1..Len(data_list) :
        k > 1 /\ data_list[k].timestamp = data_list[k - 1].timestamp

\* C8: run fails with a chronology error whenever market_data or signals
\* contains an element stamped earlier than its predecessor; the failure comes
\* before any tick is processed, so the equity curve, trade log, positions and
\* pending orders are left unchanged, and the input is never re-sorted.
C8_ChronologyFailure ==
    /\ []( (pc # "idle" /\ (HasInversion(market_data) \/ HasInversion(signals)))
            => /\ pc = "ValueError"
               /\ i = 0
               /\ equity_curve = << >>
               /\ trade_log = << >>
               /\ positions = << >>
               /\ pending_orders = << >>
               /\ filled_orders = << >> )
    /\ [][ pc # "idle" => (market_data' = market_data /\ signals' = signals) ]_vars

\* ordered market data with signals out of order
C8_Witness ==
    /\ pc = "ValueError"
    /\ market_data # << >>
    /\ ~HasInversion(market_data)
    /\ HasInversion(signals)

\* C9 as stated: run fails with a chronology error when two consecutive elements
\* of market_data, or of signals, carry the same time stamp.
C9_StrictOrdering ==
    (pc # "idle" /\ (HasRepeat(market_data) \/ HasRepeat(signals)))
        => pc = "ValueError"

\* C9 as amended: run fails with a chronology error exactly when an element of
\* market_data or of signals is stamped earlier than its predecessor; equal
\* consecutive time stamps are accepted.
C9_NonStrictOrdering ==
    pc # "idle" =>
        (pc = "ValueError" <=> (HasInversion(market_data) \/ HasInversion(signals)))

\* a run that returned on inputs with repeated time stamps in both lists
C9_Witness ==
    /\ pc = "done"
    /\ HasRepeat(market_data)
    /\ HasRepeat(signals)

\* price is inside the slippage bounds of a fill of the given side at the
\* quote of data
FillWithinSlippage(side, price, data) ==
    IF side = "BUY"
    THEN /\ price >= data.ask
         /\ price * 10000 <= data.ask * (10000 + 2 * slippage_bps)
    ELSE /\ price <= data.bid
         /\ price * 10000 >= data.bid * (10000 - 2 * slippage_bps)

\* orders of either side with a limit at or beyond the quote of data
QuotedOrders(data) ==
    { [ side |-> sd, symbol |-> data.symbol, limit_price |-> lp ] :
        sd \in {"BUY", "SELL"},
        lp \in {data.bid, data.ask, RDiv(data.ask * 101, 100), RDiv(data.bid * 99, 100)} }

\* C18: every fill recorded in the trade log respects the slippage bounds
\* relative to the quote of the tick at which it filled: a BUY fill price lies
\* in [ask, ask x (1 + 2 x slippage_bps/10000)] and a SELL fill price in
\* [bid x (1 - 2 x slippage_bps/10000), bid].  The trade log is written by the
\* loop only; the same bounds are checked on _simulate_fill for orders of
\* both sides.
C18_FillsWithinSlippage ==
    /\ [][ /\ trade_log' # trade_log => TickStep
           /\ TickStep =>
                \A k \in 1..Len(trade_log') :
                    IF k <= Len(trade_log) THEN trade_log'[k] = trade_log[k]
                    ELSE FillWithinSlippage(trade_log'[k].side, trade_log'[k].price,
                                            market_data[i']) ]_vars
    /\ [](\A kind \in TickKinds :
            \A order \in QuotedOrders(MarketDataPoint(1, kind)) :
              \A k \in 1..Len(SimulateFill(order, MarketDataPoint(1, kind))) :
                FillWithinSlippage(order.side,
                                   SimulateFill(order, MarketDataPoint(1, kind))[k],
                                   MarketDataPoint(1, kind)))

\* the tick just processed filled a BUY order above its ask
C18_Witness ==
    /\ pc = "loop"
    /\ i > 0
    /\ trade_log # << >>
    /\ Last(trade_log).timestamp = market_data[i].timestamp
    /\ Last(trade_log).symbol = market_data[i].symbol
    /\ Last(trade_log).side = "BUY"
    /\ Last(trade_log).price > market_data[i].ask

\* the time stamps of a list of records are non-decreasing
NonDecreasing(stamps) ==
    \A k \in 1..Len(stamps) : k > 1 => stamps[k - 1] <= stamps[k]

MaxRuns == 2
MaxRerunTicks == 2

\* n points of symbol A at 100.00, stamped 1..n
SteadyData(n) == [ k \in 1..n |-> MarketDataPoint(k, "A_lo") ]

\* run(market_data, signals) on a Backtester that is new or has returned from
\* an earlier run
RunAgain ==
    /\ pc \in {"idle", "done"}
    /\ runs < MaxRuns
    /\ \E n \in 0..MaxRerunTicks :
       \E f \in [1..n -> {"BUY", "none"}] :
         RunCall(SteadyData(n), SignalsOf(f, n), "None")
    /\ UNCHANGED clock

NextRerun == RunAgain \/ Tick \/ Finish

SpecRerun == InitBT /\ [][NextRerun]_vars

RECURSIVE SumRealized(_, _)
\* realized PnL of the positions of the symbols S
SumRealized(S, pos) ==
    IF S = {} THEN 0
    ELSE LET s == CHOOSE x \in S : TRUE
         IN  pos[s].realized_pnl + SumRealized(S \ {s}, pos)

RECURSIVE SumOpenUnrealized(_, _)
\* unrealized PnL of the open positions among the symbols S
SumOpenUnrealized(S, pos) ==
    IF S = {} THEN 0
    ELSE LET s == CHOOSE x \in S : TRUE
         IN  (IF pos[s].size # 0 THEN pos[s].unrealized_pnl ELSE 0)
               + SumOpenUnrealized(S \ {s}, pos)

\* C5: at every tick the equity appended to the equity curve and fed to the
\* DrawdownMonitor equals cash + the realized PnL of all positions + the
\* unrealized PnL of the open positions; a position whose size has returned to
\* zero contributes no unrealized PnL.
C5_EquityIdentity ==
    (pc = "loop" /\ i > 0) =>
        /\ Last(equity_curve)[2]
             = capital + SumRealized(DOMAIN positions, positions)
                 + SumOpenUnrealized(DOMAIN positions, positions)
        /\ drawdown_monitor.current_capital = Last(equity_curve)[2]

(***************************************************************************)
(* Specification SpecE2E: the end-to-end scenario on a new Backtester      *)
(***************************************************************************)
MaxScenarioTicks == 3

\* Signal(timestamp, strength=0.6, confidence=0.8, regime='trending')
ScenarioSignal(timestamp) ==
    [ timestamp |-> timestamp, strength |-> 6, confidence |-> 8, regime |-> "trending" ]

RECURSIVE ScenarioSignalsOf(_, _)
\* the scenario signals of a choice f of "signal" or "none" for each time
\* stamp 1..n
ScenarioSignalsOf(f, n) ==
    IF n = 0 THEN << >>
    ELSE IF f[n] = "none" THEN ScenarioSignalsOf(f, n - 1)
    ELSE Append(ScenarioSignalsOf(f, n - 1), ScenarioSignal(n))

\* run(market_data, signals) on the new Backtester: ticks of A and B quoted
\* 100.00 / 99.95 / 100.05, the scenario signal at any of them
RunScenario ==
    /\ pc = "idle"
    /\ \E n \in 0..MaxScenarioTicks :
       \E kinds \in [1..n -> {"A_lo", "B_lo"}], f \in [1..n -> {"signal", "none"}] :
         RunCall(ReplayData(n, kinds), ScenarioSignalsOf(f, n), "None")
    /\ UNCHANGED clock

NextE2E == RunScenario \/ Tick \/ Finish

SpecE2E == InitBT /\ [][NextE2E]_vars

\* C20: with capital 100000 and the scenario signal at a tick quoted
\* 100.00 / 99.95 / 100.05, run enqueues a BUY order of 48 units with limit
\* 101.05 and the order fills immediately, at the signal tick's ask plus 5 bps
\* slippage (100.10).
C20_ImmediateFill ==
    (pc = "loop" /\ i > 0 /\ SignalAt(signals, market_data[i].timestamp) # << >>)
        => \E k \in 1..Len(filled_orders) :
              /\ filled_orders[k].timestamp = market_data[i].timestamp
              /\ filled_orders[k].side = "BUY"
              /\ filled_orders[k].size = 4800
              /\ filled_orders[k].limit_price = 10105
              /\ filled_orders[k].fill_price = 10010

(***************************************************************************)
(* Specification SpecPair: two Backtester objects whose runs interleave    *)
(*                                                                         *)
(* One object executes at a time: its fields are the variables of the      *)
(* model, and the fields of the object that is not executing are kept in   *)
(* "other".  A first Backtester runs alone and is kept in "alone"; then    *)
(* two new ones are constructed and run with their ticks in any order.     *)
(***************************************************************************)
MaxPairTicks == 2

\* the fields of the Backtester that is executing, and its run() call
ThisInstance ==
    [ capital |-> capital, drawdown_monitor |-> drawdown_monitor,
      positions |-> positions, pending_orders |-> pending_orders,
      filled_orders |-> filled_orders, equity_curve |-> equity_curve,
      trade_log |-> trade_log, regime_changes |-> regime_changes,
      regime_metrics |-> regime_metrics, current_regime |-> current_regime,
      regime_detector |-> regime_detector, market_data |-> market_data,
      signals |-> signals, strategy_func |-> strategy_func, pc |-> pc, i |-> i,
      runs |-> runs, metrics |-> metrics ]

\* Backtester.__init__: every field is assigned on self, to a new object
NewInstance ==
    [ capital |-> initial_capital,
      drawdown_monitor |-> DrawdownMonitorInit(initial_capital),
      positions |-> << >>, pending_orders |-> << >>, filled_orders |-> << >>,
      equity_curve |-> << >>, trade_log |-> << >>, regime_changes |-> << >>,
      regime_metrics |-> [ r \in Regimes |-> [trades |-> 0, pnl |-> 0, wins |-> 0] ],
      current_regime |-> "uncertain", regime_detector |-> RegimeDetectorInit,
      market_data |-> << >>, signals |-> << >>, strategy_func |-> "None",
      pc |-> "idle", i |-> 0, runs |-> 0, metrics |-> << >> ]

\* execution moves to the object inst, whose pending_orders list is one list
\* shared by all Backtester objects (a class attribute)
Activate_SharedOrders(inst) ==
    /\ capital' = inst.capital
    /\ drawdown_monitor' = inst.drawdown_monitor
    /\ positions' = inst.positions
    /\ pending_orders' = pending_orders
    /\ filled_orders' = inst.filled_orders
    /\ equity_curve' = inst.equity_curve
    /\ trade_log' = inst.trade_log
    /\ regime_changes' = inst.regime_changes
    /\ regime_metrics' = inst.regime_metrics
    /\ current_regime' = inst.current_regime
    /\ regime_detector' = inst.regime_detector
    /\ market_data' = inst.market_data
    /\ signals' = inst.signals
    /\ strategy_func' = inst.strategy_func
    /\ pc' = inst.pc
    /\ i' = inst.i
    /\ runs' = inst.runs
    /\ metrics' = inst.metrics

\* execution moves to the object inst: self now names inst, and every field
\* read or written through self is a field of inst
Activate(inst) ==
    /\ capital' = inst.capital
    /\ drawdown_monitor' = inst.drawdown_monitor
    /\ positions' = inst.positions
    /\ pending_orders' = inst.pending_orders
    /\ filled_orders' = inst.filled_orders
    /\ equity_curve' = inst.equity_curve
    /\ trade_log' = inst.trade_log
    /\ regime_changes' = inst.regime_changes
    /\ regime_metrics' = inst.regime_metrics
    /\ current_regime' = inst.current_regime
    /\ regime_detector' = inst.regime_detector
    /\ market_data' = inst.market_data
    /\ signals' = inst.signals
    /\ strategy_func' = inst.strategy_func
    /\ pc' = inst.pc
    /\ i' = inst.i
    /\ runs' = inst.runs
    /\ metrics' = inst.metrics

Returned(inst) == inst.pc \in {"done", "ValueError", "KeyError"}

SameInputs(a, b) ==
    /\ a.market_data = b.market_data
    /\ a.signals = b.signals
    /\ a.strategy_func = b.strategy_func

\* run(market_data, signals) on the first Backtester: points of A and B at
\* 100.00, a BUY signal at any of them
RunAlone ==
    /\ pc = "idle"
    /\ alone = << >>
    /\ \E n \in 0..MaxPairTicks :
       \E kinds \in [1..n -> {"A_lo", "B_lo"}], f \in [1..n -> {"BUY", "none"}] :
         RunCall(ReplayData(n, kinds), SignalsOf(f, n), "None")
    /\ UNCHANGED clock

\* the first run has returned: keep its object, construct two new Backtesters
Construct ==
    /\ alone = << >>
    /\ Returned(ThisInstance)
    /\ alone' = <<ThisInstance>>
    /\ other' = <<NewInstance>>
    /\ Activate(NewInstance)
    /\ UNCHANGED <<clock, last_op, pl_vars, ps_vars, rd_vars, as_vars, ext_vars>>

\* run(...) on one of the two: one of them is given the inputs of the first
\* run, the other one any input
RunPaired ==
    /\ pc = "idle"
    /\ alone # << >>
    /\ \E n \in 0..MaxPairTicks :
       \E kinds \in [1..n -> {"A_lo", "B_lo"}], f \in [1..n -> {"BUY", "none"}] :
         /\ \/ other[1].pc = "idle"
            \/ SameInputs(other[1], alone[1])
            \/ /\ ReplayData(n, kinds) = alone[1].market_data
               /\ SignalsOf(f, n) = alone[1].signals
         /\ RunCall(ReplayData(n, kinds), SignalsOf(f, n), "None")
    /\ UNCHANGED clock

\* the scheduler moves execution to the other Backtester
Switch ==
    /\ other # << >>
    /\ other' = <<ThisInstance>>
    /\ Activate(other[1])
    /\ UNCHANGED <<alone, clock, last_op, pl_vars, ps_vars, rd_vars, as_vars, ext_vars>>

NextPair == RunAlone \/ Construct \/ RunPaired \/ Switch \/ Tick \/ Finish

SpecPair == InitBT /\ [][NextPair]_vars

\* what run() leaves behind, without the wall-clock stamps
Result(inst) ==
    [ inst EXCEPT
        !.drawdown_monitor.reduction_triggered_at = (@ # None),
        !.drawdown_monitor.safe_mode_triggered_at = (@ # None),
        !.regime_detector.last_detection_time = (@ # None) ]

\* C21: two Backtester objects share no mutable state: when their ticks
\* interleave in any order, each one that has returned holds and returns
\* exactly what a Backtester run alone on the same inputs holds and returns
\* (metrics, equity curve, trade log, orders, positions, regime and drawdown
\* state; wall-clock stamps apart).
C21_InstancesIndependent ==
    (alone # << >>) =>
        \A inst \in {ThisInstance, other[1]} :
            (Returned(inst) /\ SameInputs(inst, alone[1]))
                => Result(inst) = Result(alone[1])

\* one Backtester has returned with trades while the other, given other
\* inputs, is between two of its ticks
C21_Witness ==
    /\ alone # << >>
    /\ pc = "done"
    /\ SameInputs(ThisInstance, alone[1])
    /\ trade_log # << >>
    /\ other[1].pc = "loop"
    /\ other[1].i > 0 /\ other[1].i < Len(other[1].market_data)
    /\ ~SameInputs(other[1], alone[1])
    /\ other[1].pending_orders # << >>

(***************************************************************************)
(* PositionSizer (src/src/strategy/position_sizer.py)                      *)
(*                                                                         *)
(* Units of calculate_size: signal_strength in thousandths, confidence and *)
(* current_exposure in hundredths, regime_multiplier in tenths, capital in *)
(* whole currency units; position_pct in units of 1e-7, the product of the *)
(* units of its four factors, and the returned size in 1e-7 currency       *)
(* units.  No quotient is taken, so the arithmetic is exact.  The regime   *)
(* argument is only logged.                                                *)
(***************************************************************************)
base_position_pct == 1              \* 0.1, in tenths
sizer_max_position_pct == 2000000   \* 0.2, in units of 1e-7
min_confidence == 30                \* 0.3, in hundredths
min_signal_strength == 10           \* 0.01, in thousandths
MAX_TOTAL_EXPOSURE == 8000000       \* 0.8, in units of 1e-7
ExposureUnit == 100000              \* one hundredth, in units of 1e-7

\* position_pct without "min(position_pct, self.max_position_pct)"
PositionPct_Uncapped(signal_strength, confidence, regime_multiplier) ==
    base_position_pct * Abs(signal_strength) * confidence * regime_multiplier

\* position_pct after the maximum limit
PositionPct(signal_strength, confidence, regime_multiplier) ==
    Min(base_position_pct * Abs(signal_strength) * confidence * regime_multiplier,
        sizer_max_position_pct)

\* "if signal_strength < 0: position_size = -position_size"
Directed(signal_strength, position_size) ==
    IF signal_strength < 0 THEN -position_size ELSE position_size

\* calculate_size without the minimum confidence test
CalculateSize_NoMinConfidence(signal_strength, confidence, total_capital, regime_multiplier, current_exposure) ==
    IF Abs(signal_strength) < min_signal_strength THEN 0
    ELSE LET position_pct == PositionPct(signal_strength, confidence, regime_multiplier)
             available_exposure == MAX_TOTAL_EXPOSURE - current_exposure * ExposureUnit
         IN  IF current_exposure * ExposureUnit + position_pct > MAX_TOTAL_EXPOSURE
             THEN IF available_exposure > 0
                  THEN Directed(signal_strength, available_exposure * total_capital)
                  ELSE 0
             ELSE Directed(signal_strength, position_pct * total_capital)

\* calculate_size without the total exposure limit
CalculateSize_NoExposureLimit(signal_strength, confidence, total_capital, regime_multiplier, current_exposure) ==
    IF confidence < min_confidence THEN 0
    ELSE IF Abs(signal_strength) < min_signal_strength THEN 0
    ELSE Directed(signal_strength,
                  PositionPct(signal_strength, confidence, regime_multiplier) * total_capital)

\* calculate_size returning 0.0 whenever the position would exceed the total
\* exposure limit, instead of the exposure still available
CalculateSize_NoReduction(signal_strength, confidence, total_capital, regime_multiplier, current_exposure) ==
    IF confidence < min_confidence THEN 0
    ELSE IF Abs(signal_strength) < min_signal_strength THEN 0
    ELSE LET position_pct == PositionPct(signal_strength, confidence, regime_multiplier)
         IN  IF current_exposure * ExposureUnit + position_pct > MAX_TOTAL_EXPOSURE
             THEN 0
             ELSE Directed(signal_strength, position_pct * total_capital)

\* PositionSizer.calculate_size(signal_strength, confidence, regime, capital,
\* regime_multiplier, current_exposure) of a sizer built with the defaults
CalculateSize(signal_strength, confidence, total_capital, regime_multiplier, current_exposure) ==
    IF confidence < min_confidence THEN 0
    ELSE IF Abs(signal_strength) < min_signal_strength THEN 0
    ELSE LET position_pct == PositionPct(signal_strength, confidence, regime_multiplier)
             available_exposure == MAX_TOTAL_EXPOSURE - current_exposure * ExposureUnit
         IN  IF current_exposure * ExposureUnit + position_pct > MAX_TOTAL_EXPOSURE
             THEN IF available_exposure > 0
                  THEN Directed(signal_strength, available_exposure * total_capital)
                  ELSE 0
             ELSE Directed(signal_strength, position_pct * total_capital)

(***************************************************************************)
(* Specification SpecPS: one calculate_size call, and the same call with a *)
(* confidence that is not lower                                            *)
(***************************************************************************)
\* the arguments offered: the two thresholds from both sides, the ends of the
\* ranges, multipliers and exposures of either sign, capital of either sign
SignalStrengths == {-1000, -500, -10, -9, 0, 9, 10, 500, 1000}
Confidences == {0, 29, 30, 40, 90, 100}
RegimeMultipliers == {-10, 0, 5, 10, 30}
SizerCapitals == {-100, 0, 100}
CurrentExposures == {-50, 0, 75, 80, 90}

InitPS ==
    /\ ps_call \in [ signal_strength : SignalStrengths, confidence : Confidences,
                      capital : SizerCapitals, regime_multiplier : RegimeMultipliers,
                      current_exposure : CurrentExposures ]
    /\ ps_result = << >>
    /\ ps_higher = << >>
    /\ drawdown_monitor = DrawdownMonitorInit(0)
    /\ clock = 1
    /\ last_op = "init"
    /\ LimiterIdle
    /\ BacktesterIdle
    /\ PairIdle /\ DetectorsIdle /\ AdaptiveIdle /\ ExtIdle

CalculateSizeCall ==
    /\ ps_result = << >>
    /\ ps_result' = <<CalculateSize(ps_call.signal_strength, ps_call.confidence,
                                    ps_call.capital, ps_call.regime_multiplier,
                                    ps_call.current_exposure)>>
    /\ UNCHANGED <<ps_call, ps_higher, dm_vars, pl_vars, bt_fields, run_vars,
                   pair_vars, rd_vars, as_vars, ext_vars>>

\* the same call with a confidence at least as high
CalculateSizeHigher ==
    /\ ps_result # << >>
    /\ ps_higher = << >>
    /\ \E c \in Confidences :
          /\ c >= ps_call.confidence
          /\ ps_higher' = <<c, CalculateSize(ps_call.signal_strength, c, ps_call.capital,
                                             ps_call.regime_multiplier,
                                             ps_call.current_exposure)>>
    /\ UNCHANGED <<ps_call, ps_result, dm_vars, pl_vars, bt_fields, run_vars,
                   pair_vars, rd_vars, as_vars, ext_vars>>

NextPS == CalculateSizeCall \/ CalculateSizeHigher

SpecPS == InitPS /\ [][NextPS]_vars

\* C22: calculate_size returns exactly 0 whenever confidence < min_confidence
\* (0.3) or |signal_strength| < 0.01, for every capital, regime multiplier and
\* current exposure.
C22_ZeroBelowThresholds ==
    (ps_result # << >> /\ (\/ ps_call.confidence < 30
                           \/ Abs(ps_call.signal_strength) < 10))
        => ps_result[1] = 0

\* a full-strength signal with confidence 0.29 gets no position, and the same
\* signal with confidence 0.3 gets one
C22_Witness ==
    /\ ps_result = <<0>>
    /\ ps_call.capital = 100 /\ ps_call.regime_multiplier = 10
    /\ ps_call.current_exposure = 0
    /\ ps_call.confidence = 29 /\ ps_call.signal_strength = 1000
    /\ ps_higher # << >> /\ ps_higher[1] = 30 /\ ps_higher[2] # 0

\* C23: for signal_strength in [-1,1], confidence in [0,1], capital > 0 and
\* regime_multiplier > 0 the returned notional is at most max_position_pct
\* (0.2) x capital in magnitude, non-negative for a positive signal and
\* non-positive for a negative one.
C23_SizeWithinCapAndSigned ==
    (/\ ps_result # << >>
     /\ ps_call.signal_strength \in -1000..1000
     /\ ps_call.confidence \in 0..100
     /\ ps_call.capital > 0
     /\ ps_call.regime_multiplier > 0)
        => /\ Abs(ps_result[1]) <= 2000000 * ps_call.capital
           /\ ps_call.signal_strength > 0 => ps_result[1] >= 0
           /\ ps_call.signal_strength < 0 => ps_result[1] <= 0

\* a short position at the cap: strength -1, confidence 1 and multiplier 3 ask
\* for 0.3 of the capital and get 0.2
C23_Witness ==
    /\ ps_call.signal_strength = -1000 /\ ps_call.confidence = 100
    /\ ps_call.regime_multiplier = 30 /\ ps_call.capital = 100
    /\ ps_call.current_exposure = 0
    /\ ps_result = <<-200000000>>

\* C24: for fixed signal strength, capital, regime multiplier and current
\* exposure, and confidences c_low <= c_high with c_low >= min_confidence,
\* |size(c_high)| >= |size(c_low)|.
C24_MonotoneInConfidence ==
    (ps_higher # << >> /\ ps_call.confidence >= 30)
        => Abs(ps_higher[2]) >= Abs(ps_result[1])

\* confidence 0.4 fits under the exposure limit (0.75 + 0.04), confidence 0.9
\* does not (0.75 + 0.09) and is reduced to the 0.05 still available
C24_Witness ==
    /\ ps_call.signal_strength = 1000 /\ ps_call.regime_multiplier = 10
    /\ ps_call.capital = 100 /\ ps_call.current_exposure = 75
    /\ ps_call.confidence = 40 /\ ps_result = <<40000000>>
    /\ ps_higher = <<90, 50000000>>

\* C25: calculate_size returns 0 for every call with capital <= 0, whatever
\* the signal strength and confidence.
C25_ZeroForDegenerateCapital ==
    (ps_result # << >> /\ ps_call.capital <= 0) => ps_result[1] = 0

(***************************************************************************)
(* RegimeDetector as an object of its own (src/src/strategy/regime.py)     *)
(*                                                                         *)
(* A returns list is represented by the quantities detect() computes from  *)
(* it before any clipping: its length n, the annualized standard deviation *)
(* (volatility), the two moving averages of the price path (fast_ma,       *)
(* slow_ma) and the lag autocorrelation, all in thousandths.  The          *)
(* autocorrelation of a float series can leave [-1, 1] by rounding.        *)
(***************************************************************************)
\* np.clip(x, -1.0, 1.0)
Clip(x) == Max(-1000, Min(x, 1000))

\* _calculate_trend_strength without np.clip
CalculateTrendStrength_Unclipped(fast_ma, slow_ma) ==
    IF slow_ma > 0 THEN RDiv((fast_ma - slow_ma) * 1000, slow_ma) ELSE 0

\* RegimeDetector._calculate_trend_strength
CalculateTrendStrength(fast_ma, slow_ma) ==
    Clip(IF slow_ma > 0 THEN RDiv((fast_ma - slow_ma) * 1000, slow_ma) ELSE 0)

\* RegimeDetector._calculate_mean_reversion
CalculateMeanReversion(autocorr) == Clip(-autocorr)

\* the three statistics detect() passes to _classify_regime
Statistics(series) ==
    [ n |-> series.n, volatility |-> series.volatility,
      trend_strength |-> CalculateTrendStrength(series.fast_ma, series.slow_ma),
      mean_reversion |-> CalculateMeanReversion(series.autocorr) ]

\* RegimeDetector.get_confidence, get_current_regime
get_confidence(rd) == rd.regime_confidence
get_current_regime(rd) == rd.current_regime

(***************************************************************************)
(* Specification SpecRD: two RegimeDetector objects, detect() and the two  *)
(* getters called on either in any order                                   *)
(***************************************************************************)
MaxDetects == 3
Detectors == {1, 2}

\* a list of n returns with the given volatility, moving averages and
\* autocorrelation
Series(n, volatility, fast_ma, slow_ma, autocorr) ==
    [ n |-> n, volatility |-> volatility, fast_ma |-> fast_ma, slow_ma |-> slow_ma,
      autocorr |-> autocorr ]

\* lists shorter than the slow window: the empty list and one of 29 returns
ShortSeries == { Series(0, 0, 1000, 1000, 0), Series(29, 0, 1000, 1000, 0) }

\* lists of 30 returns: a flat path; a fast average 0.5, 0.699, 0.7 and 0.8
\* above and 2.5 times (clipped) the slow one; volatility 0.9;
\* autocorrelation -1.2 (clipped); a price path below zero with no volatility
FullSeries ==
    { Series(30, 200, 1000, 1000, 0), Series(30, 200, 1500, 1000, 0),
      Series(30, 200, 1699, 1000, 0), Series(30, 200, 1700, 1000, 0),
      Series(30, 200, 1800, 1000, 0), Series(30, 200, 2500, 1000, 0),
      Series(30, 900, 1000, 1000, 0), Series(30, 200, 1000, 1000, -1200),
      Series(30, 0, 1000, -100, 0) }

InitRD ==
    /\ detectors = [ d \in Detectors |-> RegimeDetectorInit ]
    /\ rd_last = [ d \in Detectors |-> << >> ]
    /\ rd_get = << >>
    /\ drawdown_monitor = DrawdownMonitorInit(0)
    /\ clock = 1
    /\ last_op = "init"
    /\ LimiterIdle
    /\ BacktesterIdle
    /\ PairIdle /\ SizerIdle /\ AdaptiveIdle /\ ExtIdle

\* detect(returns) on detector d: the call returns self.current_regime
DetectCall(d, series) ==
    /\ clock <= MaxDetects
    /\ \E rd \in { Detect(detectors[d], Statistics(series), clock) } :
          /\ detectors' = [ detectors EXCEPT ![d] = rd ]
          /\ rd_last' = [ rd_last EXCEPT ![d] =
                            [ returns |-> series, before |-> detectors[d],
                              regime |-> rd.current_regime,
                              confidence |-> rd.regime_confidence ] ]
    /\ rd_get' = << >>
    /\ clock' = clock + 1
    /\ UNCHANGED <<drawdown_monitor, last_op, pl_vars, bt_fields, run_vars,
                   pair_vars, ps_vars, as_vars, ext_vars>>

DetectShort == \E d \in Detectors, series \in ShortSeries : DetectCall(d, series)
DetectFull == \E d \in Detectors, series \in FullSeries : DetectCall(d, series)

\* get_current_regime() on detector d
GetCurrentRegime ==
    \E d \in Detectors :
        /\ rd_get' = <<d, "get_current_regime", get_current_regime(detectors[d])>>
        /\ UNCHANGED <<detectors, rd_last, dm_vars, pl_vars, bt_fields, run_vars,
                       pair_vars, ps_vars, as_vars, ext_vars>>

\* get_confidence() on detector d
GetConfidence ==
    \E d \in Detectors :
        /\ rd_get' = <<d, "get_confidence", get_confidence(detectors[d])>>
        /\ UNCHANGED <<detectors, rd_last, dm_vars, pl_vars, bt_fields, run_vars,
                       pair_vars, ps_vars, as_vars, ext_vars>>

NextRD == DetectShort \/ DetectFull \/ GetCurrentRegime \/ GetConfidence

SpecRD == InitRD /\ [][NextRD]_vars

\* C26: detect() on fewer than trend_slow_window (30) returns, the empty list
\* included, returns 'uncertain' and sets the stored regime to 'uncertain' and
\* the stored confidence to 0, whatever was stored before.
C26_ShortInputIsUncertain ==
    \A d \in Detectors :
        (rd_last[d] # << >> /\ rd_last[d].returns.n < 30)
            => /\ rd_last[d].regime = "uncertain"
               /\ detectors[d].current_regime = "uncertain"
               /\ detectors[d].regime_confidence = 0

\* a detector that held 'trending' with confidence 0.8, after detect([])
C26_Witness ==
    \E d \in Detectors :
        /\ rd_last[d] # << >>
        /\ rd_last[d].returns.n = 0
        /\ rd_last[d].before.current_regime = "trending"
        /\ rd_last[d].before.regime_confidence = 800
        /\ detectors[d].current_regime = "uncertain"
        /\ detectors[d].regime_confidence = 0

\* C27: the (regime, confidence) pair detect() produces depends only on the
\* returns argument: two detectors whose last detect call had the same returns
\* hold the same pair whatever was called on either before, and detect on the
\* returns of the detector's previous call produces the previous pair again.
C27_DetectHistoryIndependent ==
    /\ [](\A d, e \in Detectors :
            (/\ rd_last[d] # << >> /\ rd_last[e] # << >>
             /\ rd_last[d].returns = rd_last[e].returns)
                => /\ rd_last[d].regime = rd_last[e].regime
                   /\ rd_last[d].confidence = rd_last[e].confidence)
    /\ [][\A d \in Detectors :
            (/\ rd_last[d] # << >>
             /\ detectors'[d].last_detection_time # detectors[d].last_detection_time
             /\ rd_last'[d].returns = rd_last[d].returns)
                => /\ rd_last'[d].regime = rd_last[d].regime
                   /\ rd_last'[d].confidence = rd_last[d].confidence]_vars

\* two detectors in the same regime after the same returns, one of them new
\* before the call and the other one holding a different regime before it
C27_Witness ==
    /\ rd_last[1] # << >> /\ rd_last[2] # << >>
    /\ rd_last[1].returns = rd_last[2].returns
    /\ rd_last[1].returns.n = 30
    /\ rd_last[1].regime = "uncertain" /\ rd_last[1].confidence = 500
    /\ rd_last[1].before.current_regime = "high-volatility"
    /\ rd_last[2].before = RegimeDetectorInit

\* C28: after any detect call the returned regime is one of the five names
\* and the stored regime, the stored confidence is in [0,1], and
\* get_current_regime() / get_confidence() return the stored values, which
\* are those of the last detect call, without changing any detector state.
C28_StoredRegimeAndConfidence ==
    /\ [](\A d \in Detectors :
            rd_last[d] # << >>
                => /\ rd_last[d].regime \in Regimes
                   /\ detectors[d].current_regime = rd_last[d].regime
                   /\ detectors[d].regime_confidence \in 0..1000
                   /\ (rd_get # << >> /\ rd_get[1] = d)
                        => rd_get[3] = IF rd_get[2] = "get_current_regime"
                                       THEN rd_last[d].regime
                                       ELSE rd_last[d].confidence)
    /\ [][rd_get' # rd_get /\ rd_get' # << >> => detectors' = detectors]_vars

\* get_confidence() returns 1.0 on a detector whose last detect call saw a
\* fast average 2.5 times the slow one, a trend strength clipped from 1.5
C28_Witness ==
    /\ rd_get = <<1, "get_confidence", 1000>>
    /\ rd_last[1] # << >>
    /\ rd_last[1].regime = "trending"
    /\ rd_last[1].returns.fast_ma = 2500 /\ rd_last[1].returns.slow_ma = 1000
    /\ rd_last[1].returns.volatility = 200 /\ rd_last[1].returns.autocorr = 0

(***************************************************************************)
(* AdaptiveStrategy as an object of its own (src/src/strategy/adaptive.py) *)
(*                                                                         *)
(* The table maps a regime name to an entry, and an entry maps a key to a  *)
(* value: signal_weights (a map of weights in tenths), position_multiplier *)
(* in tenths, stop_loss_pct and take_profit_pct in thousandths,            *)
(* signal_threshold in hundredths, max_holding_period in seconds.          *)
(***************************************************************************)
\* AdaptiveStrategy._initialize_regime_configs
RegimeConfigsInit ==
    [ r \in Regimes |->
        CASE r = "trending" ->
               [ signal_weights |->
                   [ temp_momentum |-> 5, temp_trend |-> 6, flights_trend |-> 7,
                     flight_volume_delta |-> 6, movements_delta |-> 5,
                     precipitation |-> -3, avg_delay |-> -2 ],
                 position_multiplier |-> 10, stop_loss_pct |-> 20,
                 take_profit_pct |-> 50, signal_threshold |-> 30,
                 max_holding_period |-> 3600 ]
          [] r = "mean-reverting" ->
               [ signal_weights |->
                   [ temp_momentum |-> -4, pressure_delta |-> 5, aqi_delta |-> 4,
                     weather_flight_stress |-> 6, precipitation |-> 4,
                     flight_volume_delta |-> -3 ],
                 position_multiplier |-> 8, stop_loss_pct |-> 15,
                 take_profit_pct |-> 30, signal_threshold |-> 40,
                 max_holding_period |-> 1800 ]
          [] r = "high-volatility" ->
               [ signal_weights |->
                   [ precipitation |-> 6, avg_delay |-> 5, weather_flight_stress |-> 7,
                     wind_speed |-> -4, aqi_delta |-> 3 ],
                 position_multiplier |-> 5, stop_loss_pct |-> 40,
                 take_profit_pct |-> 80, signal_threshold |-> 50,
                 max_holding_period |-> 900 ]
          [] r = "low-volatility" ->
               [ signal_weights |->
                   [ temp_momentum |-> 4, flight_volume_delta |-> 5,
                     movements_delta |-> 4, temp_trend |-> 4, flights_trend |-> 5,
                     pressure_delta |-> -3, aqi_delta |-> -3 ],
                 position_multiplier |-> 12, stop_loss_pct |-> 10,
                 take_profit_pct |-> 25, signal_threshold |-> 25,
                 max_holding_period |-> 7200 ]
          [] r = "uncertain" ->
               [ signal_weights |->
                   [ precipitation |-> 5, flight_volume_delta |-> 4,
                     movements_delta |-> 4, weather_flight_stress |-> 5 ],
                 position_multiplier |-> 3, stop_loss_pct |-> 20,
                 take_profit_pct |-> 40, signal_threshold |-> 60,
                 max_holding_period |-> 600 ] ]

\* regime_configs.get(regime, ...) with the 'trending' entry as the default
ConfigOf_DefaultTrending(table, regime) ==
    IF regime \in DOMAIN table THEN table[regime] ELSE table["trending"]

\* self.regime_configs.get(regime, self.regime_configs['uncertain'])
ConfigOf(table, regime) ==
    IF regime \in DOMAIN table THEN table[regime] ELSE table["uncertain"]

\* AdaptiveStrategy.get_signal_weights: a copy of config['signal_weights'], or
\* KeyError for an entry without that key
GetSignalWeights(table, regime) ==
    IF "signal_weights" \in DOMAIN ConfigOf(table, regime)
    THEN <<"ok", ConfigOf(table, regime)["signal_weights"]>>
    ELSE <<"KeyError">>

\* AdaptiveStrategy.get_parameters: the entry without its signal_weights
GetParameters(table, regime) ==
    <<"ok", [ k \in DOMAIN ConfigOf(table, regime) \ {"signal_weights"} |->
                ConfigOf(table, regime)[k] ]>>

\* dict.update
DictUpdate(entry, updates) ==
    [ k \in DOMAIN entry \cup DOMAIN updates |->
        IF k \in DOMAIN updates THEN updates[k] ELSE entry[k] ]

\* AdaptiveStrategy.update_regime_config: the table afterwards
UpdateRegimeConfig(table, regime, updates) ==
    [ r \in DOMAIN table \cup {regime} |->
        IF r = regime
        THEN DictUpdate(IF regime \in DOMAIN table THEN table[regime] ELSE << >>, updates)
        ELSE table[r] ]

(***************************************************************************)
(* Specification SpecAS: one AdaptiveStrategy, its two getters called with *)
(* known and unknown regime names, between calls that update the table     *)
(***************************************************************************)
\* regime names a caller passes: the five of the table and three others
RegimeNames == Regimes \cup {"crisis", "Trending", ""}

\* the regimes update_regime_config is called for, and the updates passed
UpdatedRegimes == {"uncertain", "trending", "crisis"}
ConfigUpdates ==
    { [ position_multiplier |-> 20 ],
      [ signal_threshold |-> 10, max_holding_period |-> 60 ],
      [ signal_weights |-> [ precipitation |-> 10 ] ] }

InitAS ==
    /\ as_configs = RegimeConfigsInit
    /\ as_ret = << >>
    /\ drawdown_monitor = DrawdownMonitorInit(0)
    /\ clock = 1
    /\ last_op = "init"
    /\ LimiterIdle
    /\ BacktesterIdle
    /\ PairIdle /\ SizerIdle /\ DetectorsIdle /\ ExtIdle

GetParametersCall ==
    /\ \E r \in RegimeNames :
          as_ret' = [ method |-> "get_parameters", regime |-> r, table |-> as_configs,
                      outcome |-> GetParameters(as_configs, r) ]
    /\ UNCHANGED <<as_configs, dm_vars, pl_vars, bt_fields, run_vars, pair_vars,
                   ps_vars, rd_vars, ext_vars>>

GetSignalWeightsCall ==
    /\ \E r \in RegimeNames :
          as_ret' = [ method |-> "get_signal_weights", regime |-> r,
                      table |-> as_configs,
                      outcome |-> GetSignalWeights(as_configs, r) ]
    /\ UNCHANGED <<as_configs, dm_vars, pl_vars, bt_fields, run_vars, pair_vars,
                   ps_vars, rd_vars, ext_vars>>

UpdateRegimeConfigCall ==
    /\ \E r \in UpdatedRegimes, u \in ConfigUpdates :
          /\ as_configs' = UpdateRegimeConfig(as_configs, r, u)
          /\ as_ret' = [ method |-> "update_regime_config", regime |-> r,
                         table |-> as_configs, outcome |-> <<"ok">> ]
    /\ UNCHANGED <<dm_vars, pl_vars, bt_fields, run_vars, pair_vars, ps_vars,
                   rd_vars, ext_vars>>

NextAS == GetParametersCall \/ GetSignalWeightsCall \/ UpdateRegimeConfigCall

SpecAS == InitAS /\ [][NextAS]_vars

\* C29: for a regime name that is not in the table, get_parameters and
\* get_signal_weights do not raise and return exactly the values of the
\* 'uncertain' entry (its parameters, its signal weights), and the table is
\* afterwards what it was before the call.
C29_UnknownRegimeFallsBack ==
    (/\ as_ret # << >>
     /\ as_ret.method \in {"get_parameters", "get_signal_weights"}
     /\ as_ret.regime \notin DOMAIN as_ret.table)
        => /\ as_configs = as_ret.table
           /\ as_ret.regime \notin DOMAIN as_configs
           /\ as_ret.method = "get_parameters" =>
                 as_ret.outcome =
                     <<"ok", [ k \in DOMAIN as_ret.table["uncertain"] \ {"signal_weights"}
                                 |-> as_ret.table["uncertain"][k] ]>>
           /\ as_ret.method = "get_signal_weights" =>
                 as_ret.outcome = <<"ok", as_ret.table["uncertain"]["signal_weights"]>>

\* get_parameters('crisis') on a table whose 'uncertain' and 'trending'
\* entries were updated returns the updated 'uncertain' parameters
C29_Witness ==
    /\ as_ret # << >>
    /\ as_ret.method = "get_parameters"
    /\ as_ret.regime = "crisis"
    /\ "crisis" \notin DOMAIN as_configs
    /\ as_configs["trending"].position_multiplier = 20
    /\ as_ret.outcome = <<"ok", [ position_multiplier |-> 20, stop_loss_pct |-> 20,
                                  take_profit_pct |-> 40, signal_threshold |-> 60,
                                  max_holding_period |-> 600 ]>>

\* C30: the max_drawdown in the result of Backtester.run, computed by the
\* running-peak method over the equity curve, is a drawdown fraction:
\* 0 <= max_drawdown <= 1 for every run that returns.
C30_MaxDrawdownIsFraction ==
    (pc = "done" /\ metrics # << >>)
        => /\ metrics[1].max_drawdown >= 0
           /\ metrics[1].max_drawdown <= 1000

(***************************************************************************)
(* Backtester.compare_strategies (engine.py:516-565)                       *)
(*                                                                         *)
(* The p-value comes from scipy.stats.ttest_ind on the two return series,  *)
(* t = (mean_a - mean_b) / sqrt(svar (1/n_a + 1/n_b)) with the pooled      *)
(* variance svar = ((n_a - 1) v_a + (n_b - 1) v_b) / (n_a + n_b - 2).  The *)
(* model decides exactly when that quotient is 0/0 (nan) or x/0 (p = 0);   *)
(* everywhere else the p-value is a number in [0,1] that the model does    *)
(* not compute and takes from PValues.  p-values and confidence_level are  *)
(* in thousandths.  mean_return_diff and t_statistic are left out.         *)
(***************************************************************************)
NaN == -1
PValues == {0, 49, 50, 1000}

\* a * d as <<high, low>> in base 1000, within 32 bits
MulBase(a, d) ==
    <<a * (d \div 1000) + (a * (d % 1000)) \div 1000, (a * (d % 1000)) % 1000>>

\* whether the returns at j of curve c and at k of curve d are the same number
SameReturn(c, j, d, k) ==
    MulBase(c[j + 1][2] - c[j][2], d[k][2]) = MulBase(d[k + 1][2] - d[k][2], c[j][2])

\* whether the returns of the curve all have one value (sample variance 0)
ConstantReturns(c) == \A j, k \in 1..(Len(c) - 1) : SameReturn(c, j, c, k)

\* stats.ttest_ind(returns_a, returns_b): the p-values it can return
TTestInd(curve_a, curve_b) ==
    LET n_a == Len(curve_a) - 1
        n_b == Len(curve_b) - 1
    IN  IF n_a <= 0 \/ n_b <= 0 \/ n_a + n_b <= 2 THEN {NaN}
        ELSE IF ConstantReturns(curve_a) /\ ConstantReturns(curve_b)
        THEN IF SameReturn(curve_a, 1, curve_b, 1) THEN {NaN} ELSE {0}
        \* the variance of a single observation: nan, or dropped from svar,
        \* depending on the scipy release
        ELSE IF n_a = 1 \/ n_b = 1 THEN PValues \cup {NaN}
        ELSE PValues

\* the entries of a run() result that compare_strategies reads
ResultsOf(inst) ==
    [ sharpe_ratio |-> inst.metrics[1].sharpe_ratio, equity_curve |-> inst.equity_curve ]

\* Backtester.compare_strategies, given the p-value of the t-test; a
\* comparison with nan is False
CompareStrategies(results_a, results_b, confidence_level, p_value) ==
    [ strategy_a_sharpe |-> results_a.sharpe_ratio,
      strategy_b_sharpe |-> results_b.sharpe_ratio,
      p_value          |-> p_value,
      is_significant   |-> p_value # NaN /\ p_value < 1000 - confidence_level,
      confidence_level |-> confidence_level,
      winner           |-> IF results_a.sharpe_ratio > results_b.sharpe_ratio
                           THEN "A" ELSE "B" ]

(***************************************************************************)
(* Specification SpecAB: two Backtesters run one after the other, and      *)
(* compare_strategies on their two results                                 *)
(***************************************************************************)
MaxABTicks == 3
ConfidenceLevels == {900, 950}

\* run(market_data, signals) on strategy A's Backtester: points of A at
\* 100.00 or 400.00, a BUY signal at any of them
RunA ==
    /\ pc = "idle"
    /\ alone = << >>
    /\ \E n \in 1..MaxABTicks :
       \E kinds \in [1..n -> {"A_lo", "A_hi"}], f \in [1..n -> {"BUY", "none"}] :
         RunCall(ReplayData(n, kinds), SignalsOf(f, n), "None")
    /\ UNCHANGED clock

\* the same on strategy B's Backtester, constructed after A's run
RunB ==
    /\ pc = "idle"
    /\ alone # << >>
    /\ \E n \in 1..MaxABTicks :
       \E kinds \in [1..n -> {"A_lo", "A_hi"}], f \in [1..n -> {"BUY", "none"}] :
         RunCall(ReplayData(n, kinds), SignalsOf(f, n), "None")
    /\ UNCHANGED clock

\* backtester_a.compare_strategies(results_a, results_b, confidence_level)
Compare ==
    /\ alone # << >>
    /\ alone[1].pc = "done"
    /\ pc = "done"
    /\ comparison = << >>
    /\ \E cl \in ConfidenceLevels :
       \E p \in TTestInd(alone[1].equity_curve, equity_curve) :
         comparison' = <<CompareStrategies(ResultsOf(alone[1]), ResultsOf(ThisInstance),
                                           cl, p)>>
    /\ UNCHANGED <<dm_vars, pl_vars, bt_fields, run_vars, pair_vars, ps_vars, rd_vars,
                   as_vars, bp, bp_fills, kelly_call, kelly_result>>

NextAB == RunA \/ Construct \/ RunB \/ Tick \/ Finish \/ Compare

SpecAB == InitBT /\ [][NextAB]_vars

\* C31: compare_strategies, for any two results produced by run, returns
\* p_value in [0,1] and winner in {A, B}; winner is A exactly when A's Sharpe
\* ratio is strictly greater than B's, and is_significant is true exactly when
\* p_value < 1 - confidence_level.
C31_ComparisonWellFormed ==
    comparison # << >> =>
        /\ comparison[1].p_value >= 0 /\ comparison[1].p_value <= 1000
        /\ comparison[1].winner \in {"A", "B"}
        /\ comparison[1].winner = "A"
              <=> alone[1].metrics[1].sharpe_ratio > metrics[1].sharpe_ratio
        /\ comparison[1].is_significant
              <=> comparison[1].p_value < 1000 - comparison[1].confidence_level

\* the fill rule as the claim states it
FillRule(order, data) ==
    /\ order.symbol = data.symbol
    /\ \/ order.side = "BUY" /\ data.ask <= order.limit_price
       \/ order.side = "SELL" /\ data.bid >= order.limit_price

\* the elements of seq that satisfy (want = TRUE) or fail the fill rule at data
RECURSIVE SelectByRule(_, _, _, _)
SelectByRule(seq, data, want, n) ==
    IF n = 0 THEN << >>
    ELSE IF FillRule(seq[n], data) = want
         THEN Append(SelectByRule(seq, data, want, n - 1), seq[n])
         ELSE SelectByRule(seq, data, want, n - 1)

\* C32: at each tick a pending order is filled if and only if its symbol is
\* the tick's symbol and (BUY and ask <= limit_price) or (SELL and
\* bid >= limit_price); the filled orders are appended to filled_orders once
\* each, in order, and the others stay pending unchanged, in order, followed
\* by at most the one order generated at this tick.  Pending orders of a run
\* are BUY orders; the rule for both sides is checked on _simulate_fill.
C32_FillRule ==
    /\ [][ TickStep =>
            LET data == market_data[i']
                hit == SelectByRule(pending_orders, data, TRUE, Len(pending_orders))
                miss == SelectByRule(pending_orders, data, FALSE, Len(pending_orders))
            IN  /\ Len(filled_orders') = Len(filled_orders) + Len(hit)
                /\ \A k \in 1..Len(filled_orders) : filled_orders'[k] = filled_orders[k]
                /\ \A k \in 1..Len(hit) :
                      /\ filled_orders'[Len(filled_orders) + k].filled
                      /\ [ filled_orders'[Len(filled_orders) + k]
                             EXCEPT !.fill_price = hit[k].fill_price,
                                    !.filled = hit[k].filled ] = hit[k]
                /\ Len(pending_orders') \in {Len(miss), Len(miss) + 1}
                /\ \A k \in 1..Len(miss) : pending_orders'[k] = miss[k] ]_vars
    /\ [](\A kind \in TickKinds :
            \A order \in QuotedOrders(MarketDataPoint(1, kind)) :
                SimulateFill(order, MarketDataPoint(1, kind)) # << >>
                    <=> FillRule(order, MarketDataPoint(1, kind)))

\* a tick of A at 400.00 has filled the order with limit 404.05 and left the
\* older order with limit 101.05 pending
C32_Witness ==
    /\ pc = "loop" /\ i > 0
    /\ filled_orders # << >>
    /\ Last(filled_orders).symbol = market_data[i].symbol
    /\ trade_log # << >>
    /\ Last(trade_log).timestamp = market_data[i].timestamp
    /\ \E k \in 1..Len(pending_orders) :
          /\ pending_orders[k].symbol = market_data[i].symbol
          /\ pending_orders[k].timestamp < Last(filled_orders).timestamp
          /\ pending_orders[k].limit_price < market_data[i].ask

\* the scores of the candidates that qualify for the statistics st
CandidateScores(st) ==
    (IF st.volatility > 300
     THEN {Min(RDiv((st.volatility - 300) * 1000, 300), 1000)} ELSE {})
    \cup (IF st.volatility < 100 THEN {1000 - st.volatility * 10} ELSE {})
    \cup (IF Abs(st.trend_strength) > 300 THEN {Abs(st.trend_strength)} ELSE {})
    \cup (IF st.mean_reversion > 300 THEN {st.mean_reversion} ELSE {})

\* the best candidate score, 0 if no candidate qualifies
BestScore(st) ==
    IF CandidateScores(st) = {} THEN 0
    ELSE CHOOSE x \in CandidateScores(st) : \A y \in CandidateScores(st) : y <= x

\* C33: on a full window detect returns a regime other than 'uncertain' only
\* when the best candidate score is >= confidence_threshold (0.7), and the
\* stored confidence is then that score; when it returns 'uncertain' the best
\* score is below the threshold and the stored confidence is the best score
\* found, 0 if no candidate qualified.
C33_ClassificationThreshold ==
    \A d \in Detectors :
        (rd_last[d] # << >> /\ rd_last[d].returns.n >= 30)
            => LET best == BestScore(Statistics(rd_last[d].returns))
               IN  /\ detectors[d].regime_confidence = best
                   /\ rd_last[d].confidence = best
                   /\ rd_last[d].regime # "uncertain" <=> best >= 700

\* one detector returned 'trending' for a score of exactly 0.7, the other one
\* 'uncertain' with confidence 0.699
C33_Witness ==
    /\ rd_last[1] # << >> /\ rd_last[2] # << >>
    /\ rd_last[1].returns.fast_ma = 1700
    /\ rd_last[1].regime = "trending" /\ detectors[1].regime_confidence = 700
    /\ rd_last[2].returns.fast_ma = 1699
    /\ rd_last[2].regime = "uncertain" /\ detectors[2].regime_confidence = 699

\* current_exposure + |size|/capital <= 0.8 for the call made, in units of
\* 1e-7 of the capital (the inequality is multiplied by the capital)
WithinHeadroom ==
    IF ps_call.capital > 0
    THEN ps_call.current_exposure * ExposureUnit * ps_call.capital + Abs(ps_result[1])
            <= MAX_TOTAL_EXPOSURE * ps_call.capital
    ELSE ps_call.current_exposure * ExposureUnit * ps_call.capital + Abs(ps_result[1])
            >= MAX_TOTAL_EXPOSURE * ps_call.capital

\* the two halves of the exposure rule for the call made
RespectsHeadroom ==
    /\ ps_result[1] # 0 => WithinHeadroom
    /\ ps_call.current_exposure * ExposureUnit >= MAX_TOTAL_EXPOSURE => ps_result[1] = 0

\* C34 as stated: whenever calculate_size returns a non-zero size,
\* current_exposure + |size|/capital <= 0.8, and it returns 0 whenever
\* current_exposure >= 0.8, for every regime multiplier.
C34_RespectsHeadroom_AnyMultiplier ==
    ps_result # << >> => RespectsHeadroom

\* C34: for a regime multiplier that is not negative, whenever calculate_size
\* returns a non-zero size, current_exposure + |size|/capital <= 0.8, and it
\* returns 0 whenever current_exposure >= 0.8.
C34_RespectsHeadroom ==
    (ps_result # << >> /\ ps_call.regime_multiplier >= 0) => RespectsHeadroom

\* exposure 0.75 and a request for 0.1 of the capital: the size is the 0.05
\* still available
C34_Witness ==
    /\ ps_call.signal_strength = 1000 /\ ps_call.confidence = 100
    /\ ps_call.regime_multiplier = 10 /\ ps_call.capital = 100
    /\ ps_call.current_exposure = 75
    /\ ps_result = <<50000000>>

(***************************************************************************)
(* Specification SpecPos: a sequence of fills applied to one               *)
(* BacktestPosition                                                        *)
(***************************************************************************)
MaxFills == 4

\* the fills offered: BUY and SELL of 1.0 and 1.5 units at 100.00 and 110.00
FillSides == {"BUY", "SELL"}
FillSizes == {100, 150}
FillPrices == {10000, 11000}

\* _process_pending_orders: size_delta of a filled order
SizeDelta(side, size) == IF side = "BUY" THEN size ELSE -size

InitPos ==
    /\ bp = NewPosition
    /\ bp_fills = << >>
    /\ comparison = << >>
    /\ kelly_call = << >>
    /\ kelly_result = << >>
    /\ drawdown_monitor = DrawdownMonitorInit(0)
    /\ clock = 1
    /\ last_op = "init"
    /\ LimiterIdle
    /\ BacktesterIdle
    /\ PairIdle /\ SizerIdle /\ DetectorsIdle /\ AdaptiveIdle

\* position.update(size_delta, fill_price) for one filled order; bp_fills
\* keeps the fills applied and the size each of them found
ApplyFill ==
    /\ Len(bp_fills) < MaxFills
    /\ \E side \in FillSides, size \in FillSizes, price \in FillPrices :
          /\ bp' = PositionUpdate(bp, SizeDelta(side, size), price)
          /\ bp_fills' = Append(bp_fills, [ size_delta |-> SizeDelta(side, size),
                                            price |-> price, before |-> bp.size ])
    /\ UNCHANGED <<dm_vars, pl_vars, bt_fields, run_vars, pair_vars, ps_vars,
                   rd_vars, as_vars, comparison, kelly_call, kelly_result>>

NextPos == ApplyFill

SpecPos == InitPos /\ [][NextPos]_vars

\* the signed sum of the fills
RECURSIVE SumOfFills(_)
SumOfFills(fills) ==
    IF fills = << >> THEN 0
    ELSE SumOfFills(SubSeq(fills, 1, Len(fills) - 1)) + Last(fills).size_delta

\* the last fill was against the position and larger than it
Reversed ==
    /\ bp_fills # << >>
    /\ \/ Last(bp_fills).before > 0 /\ Last(bp_fills).size_delta < -Last(bp_fills).before
       \/ Last(bp_fills).before < 0 /\ Last(bp_fills).size_delta > -Last(bp_fills).before

\* C35: after any sequence of fills (BUY as +size, SELL as -size) the size of
\* the position is the signed sum of its fills, so its sign is the net
\* direction of the fills, also after a fill that reverses the position.
C35_SizeIsSumOfFills ==
    /\ bp.size = SumOfFills(bp_fills)
    /\ bp.size > 0 <=> SumOfFills(bp_fills) > 0
    /\ bp.size < 0 <=> SumOfFills(bp_fills) < 0

\* a long position of 1.0 reversed by a SELL of 1.5 is short 0.5
C35_Witness ==
    /\ Len(bp_fills) = 2
    /\ bp_fills[1].size_delta = 100 /\ bp_fills[2].size_delta = -150
    /\ Reversed
    /\ bp.size = -50

\* C38: when a fill reverses the direction of the position, the entry_price
\* of the resulting position is the price of the reversing fill.
C38_ReversalEntryPrice ==
    Reversed => bp.entry_price = Last(bp_fills).price

\* C37: once the monitor is Reduced, get_multiplier() stays 0.5 across every
\* update with current_capital below peak_capital that does not enter Safe,
\* also when the drawdown is back below reduction_threshold; Reduced is left
\* only by an update with current_capital >= peak_capital, by entering Safe,
\* or by reset_safe_mode().
C37_ReducedHysteresis ==
    [][ /\ ( /\ get_multiplier(drawdown_monitor) = 5
             /\ UpdateStep
             /\ drawdown_monitor'.current_capital < drawdown_monitor.peak_capital
             /\ ~is_safe_mode(drawdown_monitor') )
           => get_multiplier(drawdown_monitor') = 5
        /\ ( /\ get_multiplier(drawdown_monitor) = 5
             /\ get_multiplier(drawdown_monitor') # 5 )
           => \/ /\ UpdateStep
                 /\ drawdown_monitor'.current_capital >= drawdown_monitor.peak_capital
              \/ is_safe_mode(drawdown_monitor')
              \/ last_op' = "reset" ]_vars

\* Reduced was entered by an earlier update; the last update left the capital
\* below the peak with a drawdown under 0.15, and the multiplier is still 0.5
C37_Witness ==
    /\ last_op = "update"
    /\ ~drawdown_monitor.in_safe_mode
    /\ drawdown_monitor.reduction_triggered_at # None
    /\ drawdown_monitor.reduction_triggered_at < clock - 1
    /\ drawdown_monitor.current_capital < drawdown_monitor.peak_capital
    /\ drawdown_monitor.current_drawdown < 150
    /\ get_multiplier(drawdown_monitor) = 5

(***************************************************************************)
(* Specification SpecRC: one Backtester.run call on a new Backtester, over *)
(* ticks whose trailing returns belong to different regimes                *)
(***************************************************************************)
MaxRegimeTicks == 4

\* full windows of returns with volatility 0.9, and with no candidate regime
HighVolReturns == [ n |-> 30, volatility |-> 900, trend_strength |-> 0, mean_reversion |-> 0 ]
FlatReturns == [ n |-> 30, volatility |-> 200, trend_strength |-> 0, mean_reversion |-> 0 ]

RegimeKinds == {"short", "trend", "highvol", "flat"}

\* MarketData of symbol A quoted 100.00 with the trailing returns of the kind
RegimeDataPoint(timestamp, kind) ==
    [ timestamp |-> timestamp, symbol |-> "A", price |-> 10000, bid |-> 9995,
      ask |-> 10005,
      returns |-> CASE kind = "short"   -> ShortReturns
                    [] kind = "trend"   -> TrendReturns
                    [] kind = "highvol" -> HighVolReturns
                    [] kind = "flat"    -> FlatReturns ]

RegimeData(n, kinds) == [ k \in 1..n |-> RegimeDataPoint(k, kinds[k]) ]

\* run(market_data, signals) on the new Backtester: up to MaxRegimeTicks points
\* of any regime kind, with at most one BUY signal per time stamp
RunRegimes ==
    /\ pc = "idle"
    /\ \E n \in 1..MaxRegimeTicks :
       \E kinds \in [1..n -> RegimeKinds], f \in [1..n -> {"BUY", "none"}] :
         RunCall(RegimeData(n, kinds), SignalsOf(f, n), "None")
    /\ UNCHANGED clock

NextRC == RunRegimes \/ Tick \/ Finish

SpecRC == InitBT /\ [][NextRC]_vars

\* the log is a chain that starts at 'uncertain' and ends at the current regime
ConsistentChain ==
    /\ \A k \in 1..Len(regime_changes) : regime_changes[k][2] # regime_changes[k][3]
    /\ regime_changes # << >> =>
          /\ regime_changes[1][2] = "uncertain"
          /\ Last(regime_changes)[3] = current_regime
    /\ regime_changes = << >> => current_regime = "uncertain"
    /\ \A k \in 1..(Len(regime_changes) - 1) :
          regime_changes[k + 1][2] = regime_changes[k][3]

\* C36: an entry is appended to the regime-change log at a tick if and only
\* if the tick has at least 30 trailing returns and the detected regime
\* differs from the previous current regime; every entry has old # new, the
\* first entry's old regime is 'uncertain', each entry's old regime is the
\* previous entry's new regime, and a tick with fewer than 30 returns leaves
\* the current regime unchanged.
C36_RegimeChangeChain ==
    /\ []ConsistentChain
    /\ [][ TickStep =>
             LET data == market_data[i']
                 full == data.returns.n >= 30
                 detected == ClassifyRegime(data.returns.volatility,
                                            data.returns.trend_strength,
                                            data.returns.mean_reversion)[1]
             IN  /\ ~full => current_regime' = current_regime
                 /\ full => current_regime' = detected
                 /\ IF full /\ detected # current_regime
                    THEN regime_changes' = Append(regime_changes,
                             <<data.timestamp, current_regime, detected>>)
                    ELSE regime_changes' = regime_changes ]_vars

\* four ticks, the second one with too few returns: the log holds
\* uncertain -> trending, trending -> high-volatility at the third tick and
\* high-volatility -> uncertain at the fourth
C36_Witness ==
    /\ pc = "done"
    /\ regime_changes = << <<1, "uncertain", "trending">>,
                           <<3, "trending", "high-volatility">>,
                           <<4, "high-volatility", "uncertain">> >>
    /\ market_data[2].returns.n < 30

\* C39: for every input that passes the chronology checks, an empty
\* market_data list and market data without signals included, run completes
\* and returns a result without raising.
C39_RunCompletes ==
    ( /\ pc \notin {"idle", "loop"}
      /\ ValidateChronologicalOrder(market_data)
      /\ signals # << >> => ValidateChronologicalOrder(signals) )
        => pc = "done" /\ metrics # << >>

(***************************************************************************)
(* PositionSizer.calculate_size_with_kelly                                 *)
(*                                                                         *)
(* signal_strength and regime_multiplier are tenths, confidence and        *)
(* win_rate hundredths, avg_win, avg_loss and capital whole units.  The    *)
(* Kelly fraction is kept in units of 1/400 until it is scaled, the scaled *)
(* fraction in units of 1/4000000 and the size in 1/4000000 currency       *)
(* units, so that every value of the inputs offered is exact.              *)
(***************************************************************************)
\* max_position_pct (0.2) in units of 1/4000000
KellyCap == 800000

\* (p * b - q) / b * 0.5 in units of 1/400, for b = avg_win / avg_loss > 0
\* (exact for avg_win 1 and 2) and for the default b = 2.0
HalfKelly(win_rate, avg_win, avg_loss) ==
    IF avg_loss > 0
    THEN ((win_rate * avg_win - (100 - win_rate) * avg_loss) * 2) \div avg_win
    ELSE 2 * win_rate - (100 - win_rate)

\* calculate_size_with_kelly(signal_strength, confidence, win_rate, avg_win,
\* avg_loss, capital, regime_multiplier) of a sizer built with the defaults:
\* the exception raised, "none" if the call returns, and the value returned;
\* with avg_loss > 0 and avg_win = 0 the ratio b is 0.0 and the division by b
\* raises
CalculateSizeWithKelly(signal_strength, confidence, win_rate, avg_win, avg_loss, total_capital, regime_multiplier) ==
    IF confidence < min_confidence THEN [ raises |-> "none", value |-> 0 ]
    ELSE IF avg_loss > 0 /\ avg_win = 0 THEN [ raises |-> "ZeroDivisionError" ]
    ELSE LET kelly_fraction == Max(HalfKelly(win_rate, avg_win, avg_loss), 0)
             scaled == kelly_fraction * Abs(signal_strength) * confidence
                          * regime_multiplier
             capped == Min(scaled, KellyCap)
         IN  [ raises |-> "none",
               value |-> Directed(signal_strength, capped * total_capital) ]

(***************************************************************************)
(* Specification SpecKelly: one calculate_size_with_kelly call             *)
(***************************************************************************)
KellyStrengths == {-10, -5, 0, 5, 10}
KellyConfidences == {20, 30, 100}
WinRates == {0, 30, 50, 60, 100}
AvgWins == {0, 1, 2}
AvgLosses == {0, 1, 2}
KellyCapitals == {0, 100}
KellyMultipliers == {0, 5, 10, 30}

InitKelly ==
    /\ kelly_call \in [ signal_strength : KellyStrengths, confidence : KellyConfidences,
                         win_rate : WinRates, avg_win : AvgWins, avg_loss : AvgLosses,
                         capital : KellyCapitals, regime_multiplier : KellyMultipliers ]
    /\ kelly_result = << >>
    /\ comparison = << >>
    /\ bp = << >>
    /\ bp_fills = << >>
    /\ drawdown_monitor = DrawdownMonitorInit(0)
    /\ clock = 1
    /\ last_op = "init"
    /\ LimiterIdle
    /\ BacktesterIdle
    /\ PairIdle /\ SizerIdle /\ DetectorsIdle /\ AdaptiveIdle

CalculateSizeWithKellyCall ==
    /\ kelly_result = << >>
    /\ kelly_result' = <<CalculateSizeWithKelly(kelly_call.signal_strength,
                              kelly_call.confidence, kelly_call.win_rate,
                              kelly_call.avg_win, kelly_call.avg_loss,
                              kelly_call.capital, kelly_call.regime_multiplier)>>
    /\ UNCHANGED <<kelly_call, dm_vars, pl_vars, bt_fields, run_vars, pair_vars,
                   ps_vars, rd_vars, as_vars, comparison, bp, bp_fills>>

NextKelly == CalculateSizeWithKellyCall

SpecKelly == InitKelly /\ [][NextKelly]_vars

\* win_rate x b - (1 - win_rate) <= 0 for the call made, with b = avg_win /
\* avg_loss, and b = 2.0 when avg_loss is 0
NoEdge ==
    IF kelly_call.avg_loss > 0
    THEN kelly_call.win_rate * kelly_call.avg_win
            <= (100 - kelly_call.win_rate) * kelly_call.avg_loss
    ELSE 2 * kelly_call.win_rate <= 100 - kelly_call.win_rate

\* the value returned is 0 without an edge, and otherwise has the signal's
\* sign and a magnitude of at most max_position_pct x capital
FlooredAndCapped ==
    /\ NoEdge => kelly_result[1].value = 0
    /\ ~NoEdge =>
          /\ kelly_call.signal_strength > 0 => kelly_result[1].value >= 0
          /\ kelly_call.signal_strength < 0 => kelly_result[1].value <= 0
          /\ Abs(kelly_result[1].value) <= KellyCap * kelly_call.capital

\* C40: calculate_size_with_kelly never raises and floors the Kelly fraction
\* at 0 for every win_rate in [0,1], avg_win >= 0 and avg_loss >= 0: it
\* returns 0 whenever win_rate x b - (1 - win_rate) <= 0, the case avg_win = 0
\* included, and otherwise a size of the signal's sign with magnitude at most
\* max_position_pct x capital.
C40_KellyFlooredNeverRaises ==
    kelly_result # << >> =>
        /\ kelly_result[1].raises = "none"
        /\ FlooredAndCapped

====
